---- MODULE Spec2Model ----
(***************************************************************************)
(* gh-config-cli: reconciliation of a declarative organisation config      *)
(* against the GitHub REST API (src/src/github.rs, src/src/config.rs).     *)
(*                                                                         *)
(* The client is single-threaded: one reconciler call runs to completion   *)
(* before the next starts.  Each action below is one whole call of a       *)
(* reconciler (or of a snapshot builder); the HTTP requests it issues are  *)
(* appended to `requests` in the order the code issues them.  GitHub is    *)
(* the environment: `remote` is its state, a request may fail, and a       *)
(* successful write is applied to `remote`.                                *)
(***************************************************************************)
EXTENDS Integers, Sequences, FiniteSets, TLC

VARIABLES
    config,     \* the loaded Config (after the default-webhook back-fill once sync started)
    dry_run,    \* the --dry-run flag
    remote,     \* GitHub's state
    requests,   \* every HTTP request issued so far, in order, with its outcome
    intents,    \* the "[Dry Run] Would ..." lines logged so far
    pc,         \* where the running command stands
    idx,        \* index of the next element of the collection being iterated
    result,     \* "running", "ok" or "err": what the command returned
    snapshot,   \* the Config built by a snapshot builder (None until built)
    loaded,     \* the YAML trees of the config loader: main, defaults and the merged tree
    diffed,     \* what diff compared: the normalized configs, their YAML and has_diffs
    lookups,    \* the lookups made in the repo settings mapping table, with their results
    generated,  \* the mapping generator: the operations of the schema and generated_map
    deploy      \* deploy keys: the repo's key and secret on GitHub and the pairs generated

vars == <<config, dry_run, remote, requests, intents, pc, idx, result, snapshot, loaded, diffed, lookups,
          generated, deploy>>

(***************************************************************************)
(* Bounds of the model.                                                    *)
(***************************************************************************)
MaxRepos == 2
MaxMembers == 2
MaxHooks == 2

(***************************************************************************)
(* Option<T>: None is the empty sequence, Some(x) the one-element one.     *)
(***************************************************************************)
None == <<>>
Some(x) == <<x>>
IsSome(o) == Len(o) > 0
Unwrap(o) == o[1]

Range(s) == {s[i] : i \in DOMAIN s}

\* all orders in which the elements of a finite set can be iterated
Perms(S) ==
    {s \in [1..Cardinality(S) -> S] : \A i, j \in 1..Cardinality(S) : i # j => s[i] # s[j]}

EmptyMap == [k \in {} |-> "null"]

\* m1 overwritten by the entries of m2
MapMerge(m1, m2) ==
    [k \in DOMAIN m1 \cup DOMAIN m2 |-> IF k \in DOMAIN m2 THEN m2[k] ELSE m1[k]]

(***************************************************************************)
(* Names and values.                                                       *)
(***************************************************************************)
Org == "acme"

\* scalar setting values (YAML / JSON scalars)
Values == {"true", "false", "null"}

\* serde_json::to_value(v_desired).unwrap_or(Null): a scalar converts to the
\* same JSON scalar; a value serde_json cannot represent becomes null.
ToJson(v) == IF v \in Values THEN v ELSE "null"

\* serde_yaml::to_value(repo_json): a JSON scalar converts to the same YAML scalar.
ToYaml(v) == IF v \in Values THEN v ELSE "null"

(***************************************************************************)
(* The field mapping table get_github_api_mapping(): config key ->         *)
(* endpoint template, method, json_path.  Rows have the shape the          *)
(* generator emits: json_path is the config key and the method is one of   *)
(* PATCH, PUT, POST.                                                       *)
(***************************************************************************)
RepoEndpoint == <<"repos", "{owner}", "{repo}">>
PagesEndpoint == <<"repos", "{owner}", "{repo}", "pages">>

MappedKeys == {"allow_merge_commit", "allow_squash_merge", "cname", "build_type"}

Mapping ==
    [k \in MappedKeys |->
        CASE k = "allow_merge_commit" ->
                [endpoint |-> RepoEndpoint, method |-> "PATCH", json_path |-> k]
          [] k = "allow_squash_merge" ->
                [endpoint |-> RepoEndpoint, method |-> "PATCH", json_path |-> k]
          [] k = "cname" ->
                [endpoint |-> PagesEndpoint, method |-> "PUT", json_path |-> k]
          [] k = "build_type" ->
                [endpoint |-> PagesEndpoint, method |-> "POST", json_path |-> k]]

\* a key the table does not hold
UnmappedKey == "custom_policy"
SettingKeys == MappedKeys \cup {UnmappedKey}

\* mapping.get(k)
MappingGet(k) == IF k \in DOMAIN Mapping THEN Some(Mapping[k]) ELSE None

(***************************************************************************)
(* HTTP.  A request record: method, url (path segments after the API base  *)
(* url), body, and the outcome: ok, the response status and whether the    *)
(* response text contains "404".                                           *)
(***************************************************************************)
Req(m, url, body) ==
    [m |-> m, url |-> url, body |-> body, ok |-> TRUE, status |-> 200, has404 |-> FALSE]

\* a non-2xx answer: status and whether the body text holds "404"
ErrResponses == [status : {404, 500}, has404 : BOOLEAN]
PlainError == [status |-> 500, has404 |-> FALSE]

Failed(r, e) == [r EXCEPT !.ok = FALSE, !.status = e.status, !.has404 = e.has404]

IsWrite(r) == r.m \in {"PATCH", "PUT", "POST"}

\* endpoint.replace("{org}", org).replace("{owner}", org).replace("{repo}", repo)
Substitute(endpoint, org, repo) ==
    [i \in DOMAIN endpoint |->
        CASE endpoint[i] = "{org}" -> org
          [] endpoint[i] = "{owner}" -> org
          [] endpoint[i] = "{repo}" -> repo
          [] OTHER -> endpoint[i]]

RepoUrl(repo) == <<"repos", Org, repo>>
HooksUrl(repo) == <<"repos", Org, repo, "hooks">>
HookUrl(repo, id) == <<"repos", Org, repo, "hooks", id>>
TeamsUrl == <<"orgs", Org, "teams">>
TeamUrl(team) == <<"orgs", Org, "teams", team>>
TeamMemberUrl(team, member) == <<"orgs", Org, "teams", team, "memberships", member>>
MembershipUrl(login) == <<"orgs", Org, "memberships", login>>
TeamRepoUrl(team, repo) == <<"orgs", Org, "teams", team, "repos", Org, repo>>

(***************************************************************************)
(* A reconciler call is a script: the requests it would issue and the      *)
(* lines it would log, in program order.  An item with m = "LOG" is a      *)
(* dry-run log line; any other item is an HTTP request.                    *)
(***************************************************************************)
Log(act, target, detail) ==
    [m |-> "LOG", url |-> target, body |-> [act |-> act, detail |-> detail],
     ok |-> TRUE, status |-> 200, has404 |-> FALSE]

IsRequest(item) == item.m # "LOG"
IsLog(item) == item.m = "LOG"

RequestsOf(script) == SelectSeq(script, IsRequest)
LogsOf(script) == SelectSeq(script, IsLog)

\* positions of the requests of a script
RequestPositions(script) == {i \in DOMAIN script : IsRequest(script[i])}

\* The `?` operator: the script up to and including the request at failAt, which
\* is answered with error e; failAt = 0 when no request fails.
RunUntilFailure(script, failAt, e) ==
    IF failAt = 0 THEN script
    ELSE SubSeq(script, 1, failAt - 1) \o <<Failed(script[failAt], e)>>

(***************************************************************************)
(* GitHub's state and the effect of a successful write on it.              *)
(*   settings[r]  the repository resource GET /repos/{org}/{r} returns     *)
(*   pages[r]     the resource behind /repos/{org}/{r}/pages               *)
(*   hooks[r]     the hooks of r, in the order GitHub lists them           *)
(*   teams[t]     the team with slug t: display name and members           *)
(*   roles[u]     the org role of member u                                 *)
(*   perms[<<t, r>>]   the permission of team t on repo r                  *)
(***************************************************************************)
HookIds == {"h1", "h2", "h3", "h4", "h5"}

FreshHookId(hooks) == CHOOSE id \in HookIds : \A i \in DOMAIN hooks : hooks[i].id # id

ReplaceHook(hooks, id, body) ==
    [i \in DOMAIN hooks |->
        IF hooks[i].id = id
        THEN [id |-> id,
              config |-> [url |-> body.config.url, content_type |-> body.config.content_type],
              events |-> body.events]
        ELSE hooks[i]]

ApplyWrite(rem, r) ==
    LET u == r.url
        n == Len(u)
    IN  CASE u[1] = "repos" /\ n = 3 /\ u[3] \in DOMAIN rem.settings ->
                [rem EXCEPT !.settings[u[3]] = MapMerge(@, r.body)]
          [] u[1] = "repos" /\ n = 4 /\ u[4] = "pages" /\ u[3] \in DOMAIN rem.pages ->
                [rem EXCEPT !.pages[u[3]] = MapMerge(@, r.body)]
          [] u[1] = "repos" /\ n = 4 /\ u[4] = "hooks" /\ u[3] \in DOMAIN rem.hooks ->
                [rem EXCEPT !.hooks[u[3]] =
                    Append(@, [id |-> FreshHookId(@),
                               config |-> [url |-> r.body.config.url,
                                           content_type |-> r.body.config.content_type],
                               events |-> r.body.events])]
          [] u[1] = "repos" /\ n = 5 /\ u[4] = "hooks" /\ u[3] \in DOMAIN rem.hooks ->
                [rem EXCEPT !.hooks[u[3]] = ReplaceHook(@, u[5], r.body)]
          [] u[1] = "orgs" /\ n = 3 /\ u[3] = "teams" ->
                [rem EXCEPT !.teams =
                    MapMerge((r.body.name :> [name |-> r.body.name, members |-> {}]), @)]
          [] u[1] = "orgs" /\ n = 6 /\ u[5] = "memberships" /\ u[4] \in DOMAIN rem.teams ->
                [rem EXCEPT !.teams[u[4]].members = @ \cup {u[6]}]
          [] u[1] = "orgs" /\ n = 4 /\ u[3] = "memberships" ->
                [rem EXCEPT !.roles = MapMerge(@, (u[4] :> r.body.role))]
          [] u[1] = "orgs" /\ n = 7 /\ u[5] = "repos" ->
                [rem EXCEPT !.perms = MapMerge(@, (<<u[4], u[7]>> :> r.body.permission))]
          [] OTHER -> rem

RECURSIVE ApplyWrites(_, _)
ApplyWrites(rem, reqs) ==
    IF reqs = <<>> THEN rem
    ELSE ApplyWrites(IF IsWrite(reqs[1]) /\ reqs[1].ok THEN ApplyWrite(rem, reqs[1]) ELSE rem,
                     Tail(reqs))

(***************************************************************************)
(* manage_webhooks (github.rs 464-492), after get_webhooks answered.       *)
(***************************************************************************)
\* a find that keeps the last hook with the url instead of the first
FindHookLast(hooks, url) ==
    LET I == {i \in DOMAIN hooks : hooks[i].config.url = url}
    IN  IF I = {} THEN None
        ELSE Some(hooks[CHOOSE i \in I : \A j \in I : i >= j])

\* current_hooks.iter().find(|h| h.config.url == webhook.url)
FindHook(hooks, url) ==
    LET I == {i \in DOMAIN hooks : hooks[i].config.url = url}
    IN  IF I = {} THEN None
        ELSE Some(hooks[CHOOSE i \in I : \A j \in I : i <= j])

\* hook.events != webhook.events || hook.config.content_type != webhook.content_type
\* (Vec<String> equality: same elements in the same order)
HookDiffers(hook, webhook) ==
    hook.events # webhook.events \/ hook.config.content_type # webhook.content_type

CreateWebhookBody(webhook) ==
    [name |-> "web", active |-> "true", events |-> webhook.events,
     config |-> [url |-> webhook.url, content_type |-> webhook.content_type,
                 insecure_ssl |-> "0"]]

UpdateWebhookBody(webhook) ==
    [events |-> webhook.events,
     config |-> [url |-> webhook.url, content_type |-> webhook.content_type,
                 insecure_ssl |-> "0"]]

create_webhook(repo_name, webhook) ==
    Req("POST", HooksUrl(repo_name), CreateWebhookBody(webhook))

update_webhook(repo_name, hook_id, webhook) ==
    Req("PATCH", HookUrl(repo_name, hook_id), UpdateWebhookBody(webhook))

\* the match on `existing`, in dry-run and in apply mode
WebhookDecision(repo_name, webhook, hooks, dry) ==
    LET existing == FindHook(hooks, webhook.url)
    IN  IF dry
        THEN CASE IsSome(existing) /\ HookDiffers(Unwrap(existing), webhook) ->
                    <<Log("update_webhook", HooksUrl(repo_name), webhook)>>
               [] IsSome(existing) -> <<>>
               [] OTHER -> <<Log("create_webhook", HooksUrl(repo_name), webhook)>>
        ELSE CASE IsSome(existing) /\ HookDiffers(Unwrap(existing), webhook) ->
                    <<update_webhook(repo_name, Unwrap(existing).id, webhook)>>
               [] IsSome(existing) -> <<>>
               [] OTHER -> <<create_webhook(repo_name, webhook)>>

\* get_webhooks, then the decision
manage_webhooks(repo_name, webhook, hooks, dry) ==
    <<Req("GET", HooksUrl(repo_name), <<>>)>> \o WebhookDecision(repo_name, webhook, hooks, dry)

(***************************************************************************)
(* update_repo_settings (github.rs 515-589).                               *)
(***************************************************************************)
\* get_repo_settings: the repository resource as a map of YAML values
get_repo_settings(rem, repo_name) ==
    [k \in DOMAIN rem.settings[repo_name] |-> ToYaml(rem.settings[repo_name][k])]

\* a scan that queues every mapped key without comparing it to the observed value
PendingKeysUncompared(desired, current) ==
    {k \in DOMAIN desired : IsSome(MappingGet(k))}

\* the desired keys that have a mapping and whose value differs from the
\* observed one: v_current != Some(v_desired)
PendingKeys(desired, current) ==
    {k \in DOMAIN desired :
        /\ IsSome(MappingGet(k))
        /\ ~(k \in DOMAIN current /\ current[k] = desired[k])}

FullUrl(k, repo_name) == Substitute(Mapping[k].endpoint, Org, repo_name)

PendingUrls(desired, current, repo_name) ==
    {FullUrl(k, repo_name) : k \in PendingKeys(desired, current)}

GroupKeys(desired, current, repo_name, url) ==
    {k \in PendingKeys(desired, current) : FullUrl(k, repo_name) = url}

\* the orders of `desired.iter()` that matter: which key of each group comes first
FirstKeyChoices(desired, current, repo_name) ==
    {f \in [PendingUrls(desired, current, repo_name) -> DOMAIN desired] :
        \A u \in DOMAIN f : f[u] \in GroupKeys(desired, current, repo_name, u)}

\* pending_updates: full url -> (method of the key inserted first, body map)
pending_updates(desired, current, repo_name, first) ==
    [u \in PendingUrls(desired, current, repo_name) |->
        LET G == GroupKeys(desired, current, repo_name, u)
        IN  [method |-> Mapping[first[u]].method,
             body |-> [p \in {Mapping[k].json_path : k \in G} |->
                          ToJson(desired[CHOOSE k \in G : Mapping[k].json_path = p])]]]

SupportedMethod(r) == r.m \in {"PATCH", "PUT", "POST"}

\* a loop that sends the writes whatever dry_run says
ApplyGroupedUpdatesAlways(pending, order, dry) ==
    SelectSeq([i \in DOMAIN order |->
                 Req(pending[order[i]].method, order[i], pending[order[i]].body)],
              SupportedMethod)

\* the loop over pending_updates, visited in `order`
ApplyGroupedUpdates(pending, order, dry) ==
    LET items == [i \in DOMAIN order |->
                    IF dry
                    THEN Log("write", order[i], pending[order[i]])
                    ELSE Req(pending[order[i]].method, order[i], pending[order[i]].body)]
    IN  IF dry THEN items ELSE SelectSeq(items, SupportedMethod)

\* the whole call, given the iteration orders of the two hash maps
update_repo_settings(rem, repo, dry, first, order) ==
    LET current == get_repo_settings(rem, repo.name)
        pending == pending_updates(repo.settings, current, repo.name, first)
    IN  <<Req("GET", RepoUrl(repo.name), <<>>)>>
        \o ApplyGroupedUpdates(pending, order, dry)
        \o (IF IsSome(repo.webhook)
            THEN manage_webhooks(repo.name, Unwrap(repo.webhook), rem.hooks[repo.name], dry)
            ELSE <<>>)

\* what the call does when the repository does not exist on GitHub: the
\* settings read is answered 404
update_repo_settings_missing(repo) == <<Req("GET", RepoUrl(repo.name), <<>>)>>

(***************************************************************************)
(* Existence checks: get_team, get_user_membership and                     *)
(* get_team_repo_permission (github.rs 352-390, 751-779).  An answer is    *)
(* the status and whether the error text contains "404".                   *)
(***************************************************************************)
OkResponse == [status |-> 200, has404 |-> FALSE]

\* what GitHub may answer to the GET of a resource that is present / absent
ExistenceAnswers(present) ==
    IF present
    THEN {OkResponse} \cup {e \in ErrResponses : e.status = 500}
    ELSE ErrResponses

Answered(r, ans) == IF ans.status = 200 THEN r ELSE Failed(r, ans)

\* Err(AppError::GitHubApi(e)) if e.contains("404") => Ok(None), Err(e) => Err(e)
ErrorArm(ans) == IF ans.has404 THEN "none" ELSE "err"

\* "some", "none" or "err"
get_team(rem, team_name, ans) ==
    IF ans.status = 200
    THEN IF rem.teams[team_name].name = team_name THEN "some" ELSE "none"
    ELSE ErrorArm(ans)

\* Some(role) as <<role>>, None as <<>>, or "err"
get_user_membership(rem, login, ans) ==
    IF ans.status = 200 THEN Some(rem.roles[login])
    ELSE IF ErrorArm(ans) = "none" THEN None ELSE <<"err", "err">>

\* an empty response text is read as "push"
get_team_repo_permission(rem, team, repo, ans, emptyText) ==
    IF ans.status = 200
    THEN IF emptyText THEN Some("push") ELSE Some(rem.perms[<<team, repo>>])
    ELSE IF ErrorArm(ans) = "none" THEN None ELSE <<"err", "err">>

IsErr(o) == Len(o) = 2

(***************************************************************************)
(* create_team (github.rs 604-652), after get_team answered `existing`.    *)
(***************************************************************************)
MemberPuts(team) ==
    [i \in DOMAIN team.members |-> Req("PUT", TeamMemberUrl(team.name, team.members[i]), <<>>)]

\* dry-run arm
create_team_dry(team, existing) ==
    IF existing = "none"
    THEN <<Log("create_team", TeamsUrl, team.name),
           Log("add_members", TeamUrl(team.name), team.members)>>
    ELSE <<Log("ensure_members", TeamUrl(team.name), team.members)>>

\* apply arm, team absent: the POST and every member PUT are followed by `?`
create_team_new(team) ==
    <<Req("POST", TeamsUrl, [name |-> team.name, privacy |-> "closed"])>> \o MemberPuts(team)

\* a member loop that stops at the first failed PUT
create_team_existing_stopping(team, failing) ==
    LET n == IF failing = {} THEN Len(team.members)
             ELSE CHOOSE i \in failing : \A j \in failing : i <= j
    IN  [i \in 1..n |->
            IF i \in failing
            THEN Failed(Req("PUT", TeamMemberUrl(team.name, team.members[i]), <<>>), PlainError)
            ELSE Req("PUT", TeamMemberUrl(team.name, team.members[i]), <<>>)]

\* apply arm, team present: a failed member PUT is logged and the loop goes on;
\* `failing` holds the positions of the members whose PUT fails
create_team_existing(team, failing) ==
    [i \in DOMAIN team.members |->
        IF i \in failing THEN Failed(MemberPuts(team)[i], PlainError) ELSE MemberPuts(team)[i]]

(***************************************************************************)
(* add_user_to_org (github.rs 667-695) and assign_team_to_repo (710-749).  *)
(***************************************************************************)
add_user_to_org_dry(user, current_role) ==
    CASE IsSome(current_role) /\ Unwrap(current_role) # user.role ->
            <<Log("update_role", MembershipUrl(user.login), user.role)>>
      [] ~IsSome(current_role) ->
            <<Log("add_user", MembershipUrl(user.login), user.role)>>
      [] OTHER -> <<>>

add_user_to_org_apply(user) ==
    <<Req("PUT", MembershipUrl(user.login), [role |-> user.role])>>

assign_team_to_repo_dry(assignment, current_perm) ==
    CASE IsSome(current_perm) /\ Unwrap(current_perm) # assignment.permission ->
            <<Log("update_permission", TeamRepoUrl(assignment.team, assignment.repo),
                  assignment.permission)>>
      [] ~IsSome(current_perm) ->
            <<Log("assign_team", TeamRepoUrl(assignment.team, assignment.repo),
                  assignment.permission)>>
      [] OTHER -> <<>>

assign_team_to_repo_apply(assignment) ==
    <<Req("PUT", TeamRepoUrl(assignment.team, assignment.repo),
          [permission |-> assignment.permission])>>

(***************************************************************************)
(* One reconciler call as a step of the state machine.  `returned` is what *)
(* the call returns to its caller: "ok" or "err".                          *)
(***************************************************************************)
Effects(run) ==
    /\ requests' = requests \o RequestsOf(run)
    /\ intents' = intents \o LogsOf(run)
    /\ remote' = ApplyWrites(remote, RequestsOf(run))

Returned(failAt) == IF failAt = 0 THEN "ok" ELSE "err"

DoUpdateRepoSettings(repo, returned) ==
    IF repo.name \notin DOMAIN remote.settings
    THEN /\ \E e \in {x \in ErrResponses : x.status = 404} :
                Effects(RunUntilFailure(update_repo_settings_missing(repo), 1, e))
         /\ returned = "err"
    ELSE LET current == get_repo_settings(remote, repo.name)
         IN  \E first \in FirstKeyChoices(repo.settings, current, repo.name),
                order \in Perms(PendingUrls(repo.settings, current, repo.name)) :
                LET script == update_repo_settings(remote, repo, dry_run, first, order)
                IN  \E failAt \in {0} \cup RequestPositions(script) :
                        /\ Effects(RunUntilFailure(script, failAt, PlainError))
                        /\ returned = Returned(failAt)

DoCreateTeam(team, returned) ==
    \E ans \in ExistenceAnswers(team.name \in DOMAIN remote.teams) :
        LET get == Answered(Req("GET", TeamUrl(team.name), <<>>), ans)
            existing == get_team(remote, team.name, ans)
        IN  CASE existing = "err" ->
                    /\ Effects(<<get>>)
                    /\ returned = "err"
              [] existing # "err" /\ dry_run ->
                    /\ Effects(<<get>> \o create_team_dry(team, existing))
                    /\ returned = "ok"
              [] existing = "none" /\ ~dry_run ->
                    \E failAt \in 0..Len(create_team_new(team)) :
                        /\ Effects(<<get>> \o RunUntilFailure(create_team_new(team), failAt, PlainError))
                        /\ returned = Returned(failAt)
              [] existing = "some" /\ ~dry_run ->
                    \E failing \in SUBSET DOMAIN team.members :
                        /\ Effects(<<get>> \o create_team_existing(team, failing))
                        /\ returned = "ok"

DoAddUserToOrg(user, returned) ==
    IF dry_run
    THEN \E ans \in ExistenceAnswers(user.login \in DOMAIN remote.roles) :
            LET get == Answered(Req("GET", MembershipUrl(user.login), <<>>), ans)
                current_role == get_user_membership(remote, user.login, ans)
            IN  IF IsErr(current_role)
                THEN Effects(<<get>>) /\ returned = "err"
                ELSE Effects(<<get>> \o add_user_to_org_dry(user, current_role)) /\ returned = "ok"
    ELSE \E failAt \in 0..1 :
            /\ Effects(RunUntilFailure(add_user_to_org_apply(user), failAt, PlainError))
            /\ returned = Returned(failAt)

DoAssignTeamToRepo(assignment, returned) ==
    IF dry_run
    THEN \E ans \in ExistenceAnswers(<<assignment.team, assignment.repo>> \in DOMAIN remote.perms),
            emptyText \in BOOLEAN :
            LET get == Answered(Req("GET", TeamRepoUrl(assignment.team, assignment.repo), <<>>), ans)
                current_perm == get_team_repo_permission(remote, assignment.team,
                                                         assignment.repo, ans, emptyText)
            IN  IF IsErr(current_perm)
                THEN Effects(<<get>>) /\ returned = "err"
                ELSE /\ Effects(<<get>> \o assign_team_to_repo_dry(assignment, current_perm))
                     /\ returned = "ok"
    ELSE \E failAt \in 0..1 :
            /\ Effects(RunUntilFailure(assign_team_to_repo_apply(assignment), failAt, PlainError))
            /\ returned = Returned(failAt)

(***************************************************************************)
(* sync (github.rs 1035-1100).                                             *)
(***************************************************************************)
\* repo.name.trim().is_empty()
IsBlank(name) == name \in {"", " "}

\* the default-webhook back-fill
\* the default webhook given to every repo, the explicit webhooks overwritten
ApplyDefaultWebhookToAll(cfg) ==
    [cfg EXCEPT !.repos =
        [i \in DOMAIN cfg.repos |-> [cfg.repos[i] EXCEPT !.webhook = cfg.default_webhook]]]

ApplyDefaultWebhook(cfg) ==
    [cfg EXCEPT !.repos =
        [i \in DOMAIN cfg.repos |->
            IF IsSome(cfg.repos[i].webhook) THEN cfg.repos[i]
            ELSE [cfg.repos[i] EXCEPT !.webhook = cfg.default_webhook]]]

SomeRepoLacksWebhook(cfg) == \E i \in DOMAIN cfg.repos : ~IsSome(cfg.repos[i].webhook)

SyncStart ==
    /\ pc = "start"
    /\ IF IsSome(config.default_webhook)
       THEN /\ config' = ApplyDefaultWebhook(config)
            /\ pc' = "repos"
            /\ UNCHANGED result
       ELSE IF SomeRepoLacksWebhook(config)
            THEN /\ pc' = "done"
                 /\ result' = "err"
                 /\ UNCHANGED config
            ELSE /\ pc' = "repos"
                 /\ UNCHANGED <<config, result>>
    /\ UNCHANGED <<dry_run, remote, requests, intents, idx, snapshot, loaded, diffed, lookups, generated, deploy>>

\* a loop that goes on to the next element whatever the call returned
PropagateNothing(returned) ==
    idx' = idx + 1 /\ UNCHANGED <<pc, result>>

\* `?` after a reconciler call inside one of sync's loops
Propagate(returned) ==
    IF returned = "ok"
    THEN idx' = idx + 1 /\ UNCHANGED <<pc, result>>
    ELSE pc' = "done" /\ result' = "err" /\ UNCHANGED idx

SyncRepo ==
    /\ pc = "repos"
    /\ idx <= Len(config.repos)
    /\ IF IsBlank(config.repos[idx].name)
       THEN /\ pc' = "done"
            /\ result' = "err"
            /\ UNCHANGED <<idx, remote, requests, intents>>
       ELSE \E returned \in {"ok", "err"} :
                /\ DoUpdateRepoSettings(config.repos[idx], returned)
                /\ Propagate(returned)
    /\ UNCHANGED <<config, dry_run, snapshot, loaded, diffed, lookups, generated, deploy>>

SyncTeam ==
    /\ pc = "teams"
    /\ idx <= Len(config.teams)
    /\ \E returned \in {"ok", "err"} :
            /\ DoCreateTeam(config.teams[idx], returned)
            /\ Propagate(returned)
    /\ UNCHANGED <<config, dry_run, snapshot, loaded, diffed, lookups, generated, deploy>>

SyncUser ==
    /\ pc = "users"
    /\ idx <= Len(config.users)
    /\ \E returned \in {"ok", "err"} :
            /\ DoAddUserToOrg(config.users[idx], returned)
            /\ Propagate(returned)
    /\ UNCHANGED <<config, dry_run, snapshot, loaded, diffed, lookups, generated, deploy>>

SyncAssignment ==
    /\ pc = "assignments"
    /\ idx <= Len(config.assignments)
    /\ \E returned \in {"ok", "err"} :
            /\ DoAssignTeamToRepo(config.assignments[idx], returned)
            /\ Propagate(returned)
    /\ UNCHANGED <<config, dry_run, snapshot, loaded, diffed, lookups, generated, deploy>>

\* the collection the loop at pc iterates, and the loop that follows it
Collection(p) ==
    CASE p = "repos" -> config.repos
      [] p = "teams" -> config.teams
      [] p = "users" -> config.users
      [] p = "assignments" -> config.assignments

\* an order of the loops with the users before the teams
NextLoopUsersFirst(p) ==
    CASE p = "repos" -> "users"
      [] p = "users" -> "teams"
      [] p = "teams" -> "assignments"
      [] p = "assignments" -> "done"

NextLoop(p) ==
    CASE p = "repos" -> "teams"
      [] p = "teams" -> "users"
      [] p = "users" -> "assignments"
      [] p = "assignments" -> "done"

\* a loop is exhausted: the next loop starts, or sync returns Ok(())
SyncAdvance ==
    /\ pc \in {"repos", "teams", "users", "assignments"}
    /\ idx > Len(Collection(pc))
    /\ pc' = NextLoop(pc)
    /\ idx' = 1
    /\ result' = IF NextLoop(pc) = "done" THEN "ok" ELSE result
    /\ UNCHANGED <<config, dry_run, remote, requests, intents, snapshot, loaded, diffed, lookups, generated, deploy>>

(***************************************************************************)
(* Inputs of a sync run: the configs and the GitHub states it starts from. *)
(***************************************************************************)
DefaultWebhook ==
    [url |-> "https://ci.example/hook", content_type |-> "json",
     events |-> <<"pull_request", "push">>]

ExplicitWebhook ==
    [url |-> "https://audit.example/hook", content_type |-> "json", events |-> <<"push">>]

RepoNames == {"r1", "r2"}

\* desired settings of the repos of a sync config, by repo name
SyncSettings(name) ==
    IF name = "r1"
    THEN [k \in {"allow_merge_commit", "cname"} |-> "true"]
    ELSE [k \in {"allow_merge_commit"} |-> "true"]

SyncRepoChoices ==
    {[name |-> n, settings |-> SyncSettings(n), webhook |-> w] :
        n \in RepoNames \cup {""}, w \in {None, Some(ExplicitWebhook)}}

\* sequences of at most n elements of S with pairwise different names
NamedLists(S, n) ==
    UNION {{s \in [1..k -> S] : \A i, j \in 1..k : i # j => s[i].name # s[j].name} : k \in 0..n}

MemberLogins == <<"u1", "u2", "u3", "u4">>

SyncTeamChoices ==
    {<<>>, <<[name |-> "t1", members |-> SubSeq(MemberLogins, 1, MaxMembers)]>>}

SyncUserChoices == {<<>>, <<[login |-> "u1", role |-> "admin"]>>}

SyncAssignmentChoices == {<<>>, <<[team |-> "t1", repo |-> "r1", permission |-> "push"]>>}

SyncConfigs ==
    [org : {Org},
     repos : NamedLists(SyncRepoChoices, MaxRepos),
     teams : SyncTeamChoices,
     users : SyncUserChoices,
     assignments : SyncAssignmentChoices,
     default_webhook : {None, Some(DefaultWebhook)}]

HookOf(id, webhook, events, content_type) ==
    [id |-> id, config |-> [url |-> webhook.url, content_type |-> content_type],
     events |-> events]

\* nothing reconciled yet: the repos exist with other settings, nothing else does
RemoteFresh ==
    [settings |-> [r \in RepoNames |-> [k \in {"allow_merge_commit"} |-> "false"]],
     pages |-> [r \in RepoNames |-> EmptyMap],
     hooks |-> [r \in RepoNames |-> <<>>],
     teams |-> EmptyMap,
     roles |-> EmptyMap,
     perms |-> EmptyMap]

\* everything already as the configs want it
RemoteSynced ==
    [settings |-> [r \in RepoNames |-> [k \in {"allow_merge_commit"} |-> "true"]],
     pages |-> [r \in RepoNames |-> [k \in {"cname"} |-> "true"]],
     hooks |-> [r \in RepoNames |->
                  <<HookOf("h1", DefaultWebhook, DefaultWebhook.events, "json"),
                    HookOf("h2", ExplicitWebhook, ExplicitWebhook.events, "json")>>],
     teams |-> [t \in {"t1"} |-> [name |-> "t1", members |-> Range(MemberLogins)]],
     roles |-> [u \in {"u1"} |-> "admin"],
     perms |-> [p \in {<<"t1", "r1">>} |-> "push"]]

\* everything exists with other values
RemoteDrifted ==
    [settings |-> [r \in RepoNames |-> [k \in {"allow_merge_commit"} |-> "false"]],
     pages |-> [r \in RepoNames |-> EmptyMap],
     hooks |-> [r \in RepoNames |->
                  <<HookOf("h1", DefaultWebhook, <<"push">>, "json"),
                    HookOf("h2", ExplicitWebhook, ExplicitWebhook.events, "form")>>],
     teams |-> [t \in {"t1"} |-> [name |-> "t1", members |-> {}]],
     roles |-> [u \in {"u1"} |-> "member"],
     perms |-> [p \in {<<"t1", "r1">>} |-> "pull"]]

\* as RemoteSynced, but the team's display name is not its slug
RemoteRenamed ==
    [RemoteSynced EXCEPT !.teams = [t \in {"t1"} |-> [name |-> "Team One", members |-> {"u1"}]]]

SyncRemotes == {RemoteFresh, RemoteSynced, RemoteDrifted, RemoteRenamed}

Init ==
    /\ config \in SyncConfigs
    /\ dry_run \in BOOLEAN
    /\ remote \in SyncRemotes
    /\ requests = <<>>
    /\ intents = <<>>
    /\ pc = "start"
    /\ idx = 1
    /\ result = "running"
    /\ snapshot = None
    /\ loaded = None
    /\ diffed = None
    /\ lookups = <<>>
    /\ generated = None
    /\ deploy = None

Next ==
    \/ SyncStart
    \/ SyncRepo
    \/ SyncTeam
    \/ SyncUser
    \/ SyncAssignment
    \/ SyncAdvance

Spec == Init /\ [][Next]_vars

(***************************************************************************)
(* update_repo_settings called on its own (as main.rs's run does for each  *)
(* repo), over a wide range of desired settings, observed settings,        *)
(* desired webhooks and existing hooks.                                    *)
(***************************************************************************)
\* every map from a subset of keys K to values V
PartialMaps(K, V) == UNION {[D -> V] : D \in SUBSET K}

HookUrls == {"https://ci.example/hook", "https://audit.example/hook"}
EventLists == {<<"push">>, <<"pull_request", "push">>, <<"push", "pull_request">>}
ContentTypes == {"json", "form"}

\* desired webhooks of the repo under reconciliation
WebhookChoices ==
    [url : {"https://ci.example/hook"}, content_type : ContentTypes, events : EventLists]

\* hooks as GitHub may hold them
HookShapes ==
    [url : HookUrls, content_type : ContentTypes,
     events : {<<"push">>, <<"pull_request", "push">>}]

HookIdAt(i) == CASE i = 1 -> "h1" [] i = 2 -> "h2" [] i = 3 -> "h3" [] OTHER -> "h4"

\* the hook lists GitHub may hold for a repo: up to MaxHooks hooks, ids by position
HookLists ==
    UNION {{[i \in 1..n |-> [id |-> HookIdAt(i),
                             config |-> [url |-> f[i].url, content_type |-> f[i].content_type],
                             events |-> f[i].events]] : f \in [1..n -> HookShapes]}
           : n \in 0..MaxHooks}

RemoteOfRepo(name, settings, hooks) ==
    [settings |-> [r \in {name} |-> settings],
     pages |-> [r \in {name} |-> EmptyMap],
     hooks |-> [r \in {name} |-> hooks],
     teams |-> EmptyMap,
     roles |-> EmptyMap,
     perms |-> EmptyMap]

ConfigOfRepo(repo) ==
    [org |-> Org, repos |-> <<repo>>, teams |-> <<>>, users |-> <<>>, assignments |-> <<>>,
     default_webhook |-> None]

\* desired settings: any set of keys set to true, allow_merge_commit possibly null
DesiredChoices ==
    {d \in PartialMaps(SettingKeys, {"true", "null"}) :
        \A k \in DOMAIN d : d[k] = "null" => k = "allow_merge_commit"}

\* settings in all their variety, no webhook
InitRepoSettings ==
    \E desired \in DesiredChoices,
       observed \in PartialMaps(MappedKeys, {"true", "false"}) :
        /\ config = ConfigOfRepo([name |-> "r1", settings |-> desired, webhook |-> None])
        /\ remote = RemoteOfRepo("r1", observed, <<>>)

\* webhooks in all their variety, one setting
InitRepoWebhook ==
    \E webhook \in WebhookChoices, hooks \in HookLists, observed \in {"true", "false"} :
        /\ config = ConfigOfRepo([name |-> "r1",
                                  settings |-> [k \in {"allow_merge_commit"} |-> "true"],
                                  webhook |-> Some(webhook)])
        /\ remote = RemoteOfRepo("r1", [k \in {"allow_merge_commit"} |-> observed], hooks)

InitRepo ==
    /\ InitRepoSettings \/ InitRepoWebhook
    /\ dry_run \in BOOLEAN
    /\ requests = <<>>
    /\ intents = <<>>
    /\ pc = "call"
    /\ idx = 1
    /\ result = "running"
    /\ snapshot = None
    /\ loaded = None
    /\ diffed = None
    /\ lookups = <<>>
    /\ generated = None
    /\ deploy = None

CallUpdateRepoSettings ==
    /\ pc = "call"
    /\ \E returned \in {"ok", "err"} :
            /\ DoUpdateRepoSettings(config.repos[1], returned)
            /\ result' = returned
    /\ pc' = "done"
    /\ UNCHANGED <<config, dry_run, idx, snapshot, loaded, diffed, lookups, generated, deploy>>

NextRepo == CallUpdateRepoSettings

SpecRepo == InitRepo /\ [][NextRepo]_vars

\* the same call once more, after a first call that returned Ok: the command
\* run a second time on the same config; idx marks its first request
CallUpdateRepoSettingsAgain ==
    /\ pc = "done"
    /\ result = "ok"
    /\ \E returned \in {"ok", "err"} :
            /\ DoUpdateRepoSettings(config.repos[1], returned)
            /\ result' = returned
    /\ pc' = "again"
    /\ idx' = Len(requests) + 1
    /\ UNCHANGED <<config, dry_run, snapshot, loaded, diffed, lookups, generated, deploy>>

NextRepoTwice == CallUpdateRepoSettings \/ CallUpdateRepoSettingsAgain

SpecRepoTwice == InitRepo /\ [][NextRepoTwice]_vars

(***************************************************************************)
(* The snapshot builders generate_unfiltered_config_from_org (github.rs    *)
(* 918-1033) and generate_filtered_config_from_org (github.rs 1105-1326).  *)
(* Both only read.  `fails` maps the urls whose GET is answered with an    *)
(* error to that answer; repo_list, team_list and member_list are the      *)
(* orders in which GitHub lists the org's repos, teams and members.        *)
(***************************************************************************)
OrgReposUrl == <<"orgs", Org, "repos">>
OrgMembersUrl == <<"orgs", Org, "members">>
TeamMembersUrl(team) == <<"orgs", Org, "teams", team, "members">>
TeamReposUrl(team) == <<"orgs", Org, "teams", team, "repos">>

Get(url, fails) ==
    IF url \in DOMAIN fails THEN Failed(Req("GET", url, <<>>), fails[url])
    ELSE Req("GET", url, <<>>)

GetOk(url, fails) == url \notin DOMAIN fails

\* the elements of S in the order of alphabet: sort() of distinct strings
RECURSIVE Sorted(_, _)
Sorted(S, alphabet) ==
    IF alphabet = <<>> THEN <<>>
    ELSE (IF Head(alphabet) \in S THEN <<Head(alphabet)>> ELSE <<>>)
         \o Sorted(S, Tail(alphabet))

EventOrder == <<"pull_request", "push">>

RECURSIVE Concat(_)
Concat(seqs) == IF seqs = <<>> THEN <<>> ELSE Head(seqs) \o Concat(Tail(seqs))

\* the elements of list that are in S, in list order
Keep(list, S) == Concat([i \in DOMAIN list |-> IF list[i] \in S THEN <<list[i]>> ELSE <<>>])

\* the requests issued: the calls up to the first one whose failure propagates
Issued(calls, fails, fatal) ==
    LET F == {i \in DOMAIN calls : calls[i] \in fatal}
        n == IF F = {} THEN Len(calls) ELSE CHOOSE i \in F : \A j \in F : i <= j
    IN  [i \in 1..n |-> Get(calls[i], fails)]

\* TeamRepoResponse.permissions of a team with the permission perm, and the
\* name the builders give them: admin, else push, else pull, else none
PermissionFlags(perm) ==
    [admin |-> perm = "admin", push |-> perm \in {"admin", "push"},
     pull |-> perm \in {"admin", "push", "pull"}]

PermissionName(flags) ==
    IF flags.admin THEN "admin"
    ELSE IF flags.push THEN "push"
    ELSE IF flags.pull THEN "pull"
    ELSE "none"

\* get_team_repos: the repos the team has a permission on, in listing order
get_team_repos(rem, team, repo_list) ==
    LET names == Keep(repo_list, {r \in Range(repo_list) : <<team, r>> \in DOMAIN rem.perms})
    IN  [i \in DOMAIN names |->
            [name |-> names[i], permissions |-> PermissionFlags(rem.perms[<<team, names[i]>>])]]

WebhookOfHook(hook, events) ==
    [url |-> hook.config.url, content_type |-> hook.config.content_type, events |-> events]

managed_keys == {"allow_merge_commit", "allow_squash_merge", "allow_rebase_merge"}

\* ---- generate_unfiltered_config_from_org ----
\* a failed settings GET gives empty settings, a failed hooks GET no webhook
UnfilteredRepo(rem, name, fails) ==
    LET full_settings == get_repo_settings(rem, name)
        settings == IF GetOk(RepoUrl(name), fails)
                    THEN [k \in DOMAIN full_settings \cap managed_keys |-> full_settings[k]]
                    ELSE EmptyMap
        webhooks == IF GetOk(HooksUrl(name), fails) THEN rem.hooks[name] ELSE <<>>
    IN  [name |-> name, settings |-> settings,
         webhook |-> IF webhooks = <<>> THEN None
                     ELSE Some(WebhookOfHook(webhooks[1], webhooks[1].events))]

UnfilteredCalls(repo_list, team_list, member_list) ==
    <<OrgReposUrl>>
    \o Concat([i \in DOMAIN repo_list |-> <<RepoUrl(repo_list[i]), HooksUrl(repo_list[i])>>])
    \o <<TeamsUrl>>
    \o [i \in DOMAIN team_list |-> TeamMembersUrl(team_list[i])]
    \o <<OrgMembersUrl>>
    \o [i \in DOMAIN member_list |-> MembershipUrl(member_list[i])]
    \o [i \in DOMAIN team_list |-> TeamReposUrl(team_list[i])]

\* the failures that `?` propagates: every one but those of the settings and
\* hooks reads, and a membership read whose error text holds "404" (Ok(None))
UnfilteredFatal(calls, fails) ==
    {u \in Range(calls) \cap DOMAIN fails :
        /\ ~(Len(u) >= 3 /\ u[1] = "repos")
        /\ ~(Len(u) = 4 /\ u[3] = "memberships" /\ fails[u].has404)}

FirstWebhook(repos) ==
    LET I == {i \in DOMAIN repos : IsSome(repos[i].webhook)}
    IN  IF I = {} THEN None ELSE repos[CHOOSE i \in I : \A j \in I : i <= j].webhook

UnfilteredAssignments(rem, team_list, repo_list) ==
    Concat([i \in DOMAIN team_list |->
        LET team_repos == get_team_repos(rem, team_list[i], repo_list)
        IN  Concat([j \in DOMAIN team_repos |->
                IF PermissionName(team_repos[j].permissions) # "none"
                THEN <<[repo |-> team_repos[j].name, team |-> team_list[i],
                        permission |-> PermissionName(team_repos[j].permissions)]>>
                ELSE <<>>])])

generate_unfiltered_config_from_org(rem, repo_list, team_list, member_list, fails) ==
    LET repos == [i \in DOMAIN repo_list |-> UnfilteredRepo(rem, repo_list[i], fails)]
    IN  [org |-> Org,
         repos |-> repos,
         teams |-> [i \in DOMAIN team_list |->
                      [name |-> team_list[i],
                       members |-> Sorted(rem.teams[team_list[i]].members, MemberLogins)]],
         users |-> [i \in DOMAIN member_list |->
                      [login |-> member_list[i],
                       role |-> IF GetOk(MembershipUrl(member_list[i]), fails)
                                THEN rem.roles[member_list[i]] ELSE "member"]],
         assignments |-> UnfilteredAssignments(rem, team_list, repo_list),
         default_webhook |-> FirstWebhook(repos)]

\* ---- generate_filtered_config_from_org ----
LocalRepoNames(local) == {local.repos[i].name : i \in DOMAIN local.repos}
LocalTeamNames(local) == {local.teams[i].name : i \in DOMAIN local.teams}
LocalUserLogins(local) == {local.users[i].login : i \in DOMAIN local.users}
LocalAssignmentsSet(local) ==
    {<<local.assignments[i].team, local.assignments[i].repo>> : i \in DOMAIN local.assignments}

\* github_repo_settings_map: the listed local repos whose settings GET succeeded
FetchedRepos(local, repo_list, fails) ==
    {n \in Range(repo_list) \cap LocalRepoNames(local) : GetOk(RepoUrl(n), fails)}

\* the local repo has a webhook of its own or through default_webhook
EffectiveWebhook(local, local_repo) ==
    IsSome(local_repo.webhook) \/ IsSome(local.default_webhook)

TargetUrl(local, local_repo) ==
    IF IsSome(local_repo.webhook) THEN Unwrap(local_repo.webhook).url
    ELSE Unwrap(local.default_webhook).url

\* a filtered repo that carries every setting GitHub returns
FilteredRepoAllSettings(rem, local, local_repo, fails) ==
    [name |-> local_repo.name,
     settings |-> get_repo_settings(rem, local_repo.name),
     webhook |-> None]

\* a failed hooks GET leaves the repo without webhook
FilteredRepo(rem, local, local_repo, fails) ==
    LET github_settings == get_repo_settings(rem, local_repo.name)
        found == IF EffectiveWebhook(local, local_repo) /\ GetOk(HooksUrl(local_repo.name), fails)
                 THEN FindHook(rem.hooks[local_repo.name], TargetUrl(local, local_repo))
                 ELSE None
    IN  [name |-> local_repo.name,
         settings |-> [k \in DOMAIN local_repo.settings |->
                          IF k \in DOMAIN github_settings THEN github_settings[k] ELSE "null"],
         webhook |-> IF IsSome(found)
                     THEN Some(WebhookOfHook(Unwrap(found),
                                             Sorted(Range(Unwrap(found).events), EventOrder)))
                     ELSE None]

FilteredRepos(rem, local, repo_list, fails) ==
    Concat([i \in DOMAIN local.repos |->
        IF local.repos[i].name \in FetchedRepos(local, repo_list, fails)
        THEN <<FilteredRepo(rem, local, local.repos[i], fails)>>
        ELSE <<>>])

\* a failed teams GET skips all teams, a failed members GET skips that team
FilteredTeams(rem, local, team_list, fails) ==
    IF GetOk(TeamsUrl, fails)
    THEN LET names == Keep(team_list, LocalTeamNames(local))
         IN  Concat([i \in DOMAIN names |->
                IF GetOk(TeamMembersUrl(names[i]), fails)
                THEN <<[name |-> names[i],
                        members |-> Sorted(rem.teams[names[i]].members, MemberLogins)]>>
                ELSE <<>>])
    ELSE <<>>

\* a failed members GET skips all users; a membership GET that fails, or is
\* answered "404", skips that user
FilteredUsers(rem, local, member_list, fails) ==
    IF GetOk(OrgMembersUrl, fails)
    THEN LET logins == Keep(member_list, LocalUserLogins(local))
         IN  Concat([i \in DOMAIN logins |->
                IF GetOk(MembershipUrl(logins[i]), fails)
                THEN <<[login |-> logins[i], role |-> rem.roles[logins[i]]]>>
                ELSE <<>>])
    ELSE <<>>

\* the local teams, in team_order, that are among the fetched teams
AssignmentTeams(rem, local, team_list, team_order, fails) ==
    LET fetched == FilteredTeams(rem, local, team_list, fails)
    IN  Keep(team_order, {fetched[i].name : i \in DOMAIN fetched})

\* a failed team-repos GET skips the assignments of that team
FilteredAssignments(rem, local, repo_list, team_list, team_order, fails) ==
    LET teams == AssignmentTeams(rem, local, team_list, team_order, fails)
    IN  Concat([i \in DOMAIN teams |->
            IF GetOk(TeamReposUrl(teams[i]), fails)
            THEN LET team_repos == get_team_repos(rem, teams[i], repo_list)
                 IN  Concat([j \in DOMAIN team_repos |->
                        IF /\ <<teams[i], team_repos[j].name>> \in LocalAssignmentsSet(local)
                           /\ PermissionName(team_repos[j].permissions) # "none"
                        THEN <<[repo |-> team_repos[j].name, team |-> teams[i],
                                permission |-> PermissionName(team_repos[j].permissions)]>>
                        ELSE <<>>])
            ELSE <<>>])

FilteredCalls(rem, local, repo_list, team_list, member_list, team_order, fails) ==
    LET listed == Keep(repo_list, LocalRepoNames(local))
        teams == Keep(team_list, LocalTeamNames(local))
        logins == Keep(member_list, LocalUserLogins(local))
        assigned == AssignmentTeams(rem, local, team_list, team_order, fails)
    IN  <<OrgReposUrl>>
        \o [i \in DOMAIN listed |-> RepoUrl(listed[i])]
        \o Concat([i \in DOMAIN local.repos |->
              IF /\ local.repos[i].name \in FetchedRepos(local, repo_list, fails)
                 /\ EffectiveWebhook(local, local.repos[i])
              THEN <<HooksUrl(local.repos[i].name)>> ELSE <<>>])
        \o <<TeamsUrl>>
        \o (IF GetOk(TeamsUrl, fails) THEN [i \in DOMAIN teams |-> TeamMembersUrl(teams[i])]
            ELSE <<>>)
        \o <<OrgMembersUrl>>
        \o (IF GetOk(OrgMembersUrl, fails) THEN [i \in DOMAIN logins |-> MembershipUrl(logins[i])]
            ELSE <<>>)
        \o [i \in DOMAIN assigned |-> TeamReposUrl(assigned[i])]

\* only the failure of the repos listing is propagated
FilteredFatal(calls, fails) == {OrgReposUrl} \cap DOMAIN fails

generate_filtered_config_from_org(rem, local, repo_list, team_list, member_list, team_order, fails) ==
    [org |-> Org,
     repos |-> FilteredRepos(rem, local, repo_list, fails),
     teams |-> FilteredTeams(rem, local, team_list, fails),
     users |-> FilteredUsers(rem, local, member_list, fails),
     assignments |-> FilteredAssignments(rem, local, repo_list, team_list, team_order, fails),
     default_webhook |-> None]

(***************************************************************************)
(* The snapshot builders as steps: sync-from-org builds the unfiltered     *)
(* snapshot, diff the filtered one.                                        *)
(***************************************************************************)
MaxFailures == 1

NotFoundError == [status |-> 404, has404 |-> TRUE]

\* the answers a failing GET of url may get
FailureAnswers(url) ==
    IF Len(url) = 4 /\ url[3] = "memberships" THEN {PlainError, NotFoundError}
    ELSE {PlainError}

\* every way in which at most MaxFailures of the urls fail
FailurePlans(urls) ==
    UNION {{f \in [U -> ErrResponses] : \A u \in U : f[u] \in FailureAnswers(u)} :
            U \in {V \in SUBSET urls : Cardinality(V) <= MaxFailures}}

SnapshotEffects(calls, fails, fatal, built) ==
    /\ requests' = requests \o Issued(calls, fails, fatal)
    /\ IF fatal = {}
       THEN result' = "ok" /\ snapshot' = Some(built)
       ELSE result' = "err" /\ snapshot' = None
    /\ pc' = "done"
    /\ UNCHANGED <<config, dry_run, remote, intents, idx, loaded, diffed, lookups, generated, deploy>>

GenerateUnfilteredConfig ==
    /\ pc = "snapshot"
    /\ \E repo_list \in Perms(DOMAIN remote.settings),
          team_list \in Perms(DOMAIN remote.teams),
          member_list \in Perms(DOMAIN remote.roles) :
          LET calls == UnfilteredCalls(repo_list, team_list, member_list)
          IN  \E fails \in FailurePlans(Range(calls)) :
                SnapshotEffects(calls, fails, UnfilteredFatal(calls, fails),
                    generate_unfiltered_config_from_org(remote, repo_list, team_list,
                                                        member_list, fails))

GenerateFilteredConfig ==
    /\ pc = "snapshot"
    /\ \E repo_list \in Perms(DOMAIN remote.settings),
          team_list \in Perms(DOMAIN remote.teams),
          member_list \in Perms(DOMAIN remote.roles),
          team_order \in Perms(LocalTeamNames(config)) :
          \E fails \in FailurePlans(Range(FilteredCalls(remote, config, repo_list, team_list,
                                                        member_list, team_order, EmptyMap))) :
             LET calls == FilteredCalls(remote, config, repo_list, team_list, member_list,
                                        team_order, fails)
             IN  SnapshotEffects(calls, fails, FilteredFatal(calls, fails),
                    generate_filtered_config_from_org(remote, config, repo_list, team_list,
                                                      member_list, team_order, fails))

\* the local configs of a snapshot run: those of a sync run that pass validation
SnapshotConfigs ==
    {c \in SyncConfigs : \A i \in DOMAIN c.repos : ~IsBlank(c.repos[i].name)}

InitSnapshot ==
    /\ config \in SnapshotConfigs
    /\ dry_run = FALSE
    /\ remote \in SyncRemotes
    /\ requests = <<>>
    /\ intents = <<>>
    /\ pc = "snapshot"
    /\ idx = 1
    /\ result = "running"
    /\ snapshot = None
    /\ loaded = None
    /\ diffed = None
    /\ lookups = <<>>
    /\ generated = None
    /\ deploy = None

NextSnapshot == GenerateUnfilteredConfig \/ GenerateFilteredConfig

SpecSnapshot == InitSnapshot /\ [][NextSnapshot]_vars

(***************************************************************************)
(* The config loader: Config::from_file_with_defaults and                  *)
(* merge_with_defaults (config.rs 163-249) on serde_yaml::Value trees.     *)
(* A tree is a scalar, a sequence of trees or a mapping from keys to       *)
(* trees: a pair of its kind and its content.  A mapping is a function of  *)
(* its keys: two mappings are equal when they hold the same entries.       *)
(***************************************************************************)
Scalar(x) == <<"scalar", x>>
Sequence(items) == <<"sequence", items>>
MappingOf(entries) == <<"mapping", entries>>

IsScalar(x) == x[1] = "scalar"
IsSequence(x) == x[1] = "sequence"
IsMapping(x) == x[1] = "mapping"

\* d_map.get("name") when it is a string
NameOf(x) ==
    IF IsMapping(x) /\ "name" \in DOMAIN x[2] /\ IsScalar(x[2]["name"])
    THEN Some(x[2]["name"][2]) ELSE None

\* the main items a default item d matches by name, and the first of them
Matches(main_seq, d) ==
    {i \in DOMAIN main_seq : IsSome(NameOf(d)) /\ NameOf(main_seq[i]) = NameOf(d)}

\* a search that keeps the last main item of equal name
LastMatch(main_seq, d) ==
    CHOOSE i \in Matches(main_seq, d) : \A j \in Matches(main_seq, d) : i >= j

FirstMatch(main_seq, d) ==
    CHOOSE i \in Matches(main_seq, d) : \A j \in Matches(main_seq, d) : i <= j

\* used[i]: main item i was merged with some default item
Used(main_seq, defaults_seq) ==
    {FirstMatch(main_seq, defaults_seq[j]) :
        j \in {j \in DOMAIN defaults_seq : Matches(main_seq, defaults_seq[j]) # {}}}

\* a merge that ignores the defaults
merge_main_only(main, defaults) == main

\* a merge that lets the default value win where both trees hold a scalar
RECURSIVE merge_defaults_win(_, _)
merge_defaults_win(main, defaults) ==
    CASE IsMapping(main) /\ IsMapping(defaults) ->
            MappingOf([k \in DOMAIN main[2] \cup DOMAIN defaults[2] |->
                IF k \notin DOMAIN defaults[2] THEN main[2][k]
                ELSE IF k \notin DOMAIN main[2] THEN defaults[2][k]
                ELSE merge_defaults_win(main[2][k], defaults[2][k])])
      [] IsSequence(main) /\ IsSequence(defaults) ->
            IF main[2] = <<>> THEN defaults
            ELSE Sequence(
                [j \in DOMAIN defaults[2] |->
                    IF Matches(main[2], defaults[2][j]) = {} THEN defaults[2][j]
                    ELSE merge_defaults_win(main[2][FirstMatch(main[2], defaults[2][j])],
                                            defaults[2][j])]
                \o Concat([i \in DOMAIN main[2] |->
                      IF i \in Used(main[2], defaults[2]) THEN <<>> ELSE <<main[2][i]>>]))
      [] OTHER -> defaults

RECURSIVE merge_with_defaults(_, _)
merge_with_defaults(main, defaults) ==
    CASE IsMapping(main) /\ IsMapping(defaults) ->
            MappingOf([k \in DOMAIN main[2] \cup DOMAIN defaults[2] |->
                IF k \notin DOMAIN defaults[2] THEN main[2][k]
                ELSE IF k \notin DOMAIN main[2] THEN defaults[2][k]
                ELSE IF /\ IsSequence(main[2][k]) /\ IsSequence(defaults[2][k])
                        /\ main[2][k][2] = <<>> /\ defaults[2][k][2] # <<>>
                     THEN defaults[2][k]
                     ELSE merge_with_defaults(main[2][k], defaults[2][k])])
      [] IsSequence(main) /\ IsSequence(defaults) ->
            IF main[2] = <<>> THEN defaults
            ELSE Sequence(
                [j \in DOMAIN defaults[2] |->
                    IF Matches(main[2], defaults[2][j]) = {} THEN defaults[2][j]
                    ELSE merge_with_defaults(main[2][FirstMatch(main[2], defaults[2][j])],
                                             defaults[2][j])]
                \o Concat([i \in DOMAIN main[2] |->
                      IF i \in Used(main[2], defaults[2]) THEN <<>> ELSE <<main[2][i]>>]))
      [] OTHER -> main

\* ---- the trees the loader is run on ----
MaxItems == 2
MaxRecords == 2

\* all sequences of at most n elements of S
ListsUpTo(S, n) == UNION {[1..k -> S] : k \in 0..n}

ScalarTrees == {Scalar(x) : x \in {"1", "2", "3"}}

\* sequences of scalars, as team members or webhook events
ItemTrees == {Sequence(s) : s \in ListsUpTo({Scalar("u1"), Scalar("u2")}, MaxItems)}

\* mappings of scalars, as repo settings; the empty mapping is one of them
SettingsTrees == {MappingOf(m) : m \in PartialMaps({"x", "y"}, {Scalar("1"), Scalar("2")})}

SettingsX1 == MappingOf([k \in {"x"} |-> Scalar("1")])
SettingsX2Y3 == MappingOf([k \in {"x", "y"} |-> IF k = "x" THEN Scalar("2") ELSE Scalar("3")])

\* named records, as repos and teams, and a record without name
RecordTrees ==
    {MappingOf([k \in {"name", "settings"} |-> IF k = "name" THEN Scalar("a") ELSE SettingsX1]),
     MappingOf([k \in {"name", "settings"} |-> IF k = "name" THEN Scalar("a") ELSE SettingsX2Y3]),
     MappingOf([k \in {"name", "members"} |-> IF k = "name" THEN Scalar("b") ELSE Sequence(<<>>)]),
     MappingOf([k \in {"name", "members"} |->
                  IF k = "name" THEN Scalar("b") ELSE Sequence(<<Scalar("u1")>>)]),
     MappingOf([k \in {"name", "members"} |->
                  IF k = "name" THEN Scalar("b") ELSE Sequence(<<Scalar("u1"), Scalar("u2")>>)]),
     MappingOf([k \in {"settings"} |-> SettingsX1])}

RecordListTrees == {Sequence(s) : s \in ListsUpTo(RecordTrees, MaxRecords)}

\* config files: a mapping with repos
ConfigTrees == {MappingOf([k \in {"repos"} |-> r]) : r \in RecordListTrees}

Trees == ScalarTrees \cup ItemTrees \cup SettingsTrees \cup RecordTrees \cup RecordListTrees
         \cup ConfigTrees

InitLoad ==
    /\ \E main \in Trees, defaults \in Trees :
          loaded = Some([main |-> main, defaults |-> defaults, merged |-> None])
    /\ config = None
    /\ dry_run = FALSE
    /\ remote = None
    /\ requests = <<>>
    /\ intents = <<>>
    /\ pc = "load"
    /\ idx = 1
    /\ result = "running"
    /\ snapshot = None
    /\ diffed = None
    /\ lookups = <<>>
    /\ generated = None
    /\ deploy = None

\* main_config = merge_with_defaults(main_config, defaults_config)
LoadWithDefaults ==
    /\ pc = "load"
    /\ loaded' = Some([Unwrap(loaded) EXCEPT
                         !.merged = Some(merge_with_defaults(Unwrap(loaded).main,
                                                             Unwrap(loaded).defaults))])
    /\ pc' = "done"
    /\ result' = "ok"
    /\ UNCHANGED <<config, dry_run, remote, requests, intents, idx, snapshot, diffed, lookups, generated, deploy>>

NextLoad == LoadWithDefaults

SpecLoad == InitLoad /\ [][NextLoad]_vars

(***************************************************************************)
(* diff (github.rs 1329-1475): the local config and the filtered snapshot  *)
(* are normalized, serialized to YAML and compared as text.                *)
(***************************************************************************)
\* wh.events.sort()
SortEvents(webhook) ==
    IF IsSome(webhook)
    THEN Some([Unwrap(webhook) EXCEPT !.events = Sorted(Range(@), EventOrder)])
    ELSE None

\* step 4: the default webhook is applied to the copy of the local config and
\* the events are sorted, all of it only when a default webhook is set
ApplyLocalDefault(local) ==
    IF IsSome(local.default_webhook)
    THEN [local EXCEPT !.repos = [i \in DOMAIN local.repos |->
            [local.repos[i] EXCEPT !.webhook =
                SortEvents(IF IsSome(@) THEN @ ELSE local.default_webhook)]]]
    ELSE local

\* originally_explicit_webhooks
ExplicitNames(local) ==
    {local.repos[i].name : i \in {i \in DOMAIN local.repos : IsSome(local.repos[i].webhook)}}

\* diff_github_config.repos.iter_mut().find(|r| r.name == name)
FindRepo(repos, name) ==
    LET I == {i \in DOMAIN repos : repos[i].name = name}
    IN  IF I = {} THEN None ELSE Some(repos[CHOOSE i \in I : \A j \in I : i <= j])

\* step 5: the names of the repos whose webhook is removed from both sides
NormalizedNames(local, github) ==
    IF IsSome(local.default_webhook)
    THEN {n \in LocalRepoNames(local) \ ExplicitNames(local) :
            /\ IsSome(FindRepo(github.repos, n))
            /\ Unwrap(FindRepo(github.repos, n)).webhook = SortEvents(local.default_webhook)}
    ELSE {}

RemoveWebhooks(repos, names) ==
    [i \in DOMAIN repos |->
        IF repos[i].name \in names THEN [repos[i] EXCEPT !.webhook = None] ELSE repos[i]]

\* sort_by name or login: the records of list in the order of alphabet
SortByName(list, alphabet) ==
    Concat([a \in DOMAIN alphabet |-> SelectSeq(list, LAMBDA x : x.name = alphabet[a])])

SortByLogin(list, alphabet) ==
    Concat([a \in DOMAIN alphabet |-> SelectSeq(list, LAMBDA x : x.login = alphabet[a])])

RepoOrder == <<"", "r1", "r2">>
TeamOrder == <<"Team One", "t1">>

\* sort_by team, then repo
SortAssignments(list) ==
    Concat([t \in DOMAIN TeamOrder |->
        Concat([r \in DOMAIN RepoOrder |->
            SelectSeq(list, LAMBDA a : a.team = TeamOrder[t] /\ a.repo = RepoOrder[r])])])

\* step 7 without the sort of the repos
SortConfigKeepRepos(c) ==
    [c EXCEPT !.teams = [i \in DOMAIN SortByName(@, TeamOrder) |->
                            [SortByName(@, TeamOrder)[i] EXCEPT
                                !.members = Sorted(Range(@), MemberLogins)]],
              !.users = SortByLogin(@, MemberLogins),
              !.assignments = SortAssignments(@)]

\* step 7: every collection is sorted, the members of each team too
SortConfig(c) ==
    [c EXCEPT !.repos = SortByName(@, RepoOrder),
              !.teams = [i \in DOMAIN SortByName(@, TeamOrder) |->
                            [SortByName(@, TeamOrder)[i] EXCEPT
                                !.members = Sorted(Range(@), MemberLogins)]],
              !.users = SortByLogin(@, MemberLogins),
              !.assignments = SortAssignments(@)]

\* steps 3-7 for the local side
diff_local_config(local, github) ==
    LET applied == ApplyLocalDefault(local)
    IN  SortConfig([applied EXCEPT
            !.repos = RemoveWebhooks(@, NormalizedNames(local, github)),
            !.default_webhook = None])

\* steps 3-7 for the GitHub side
diff_github_config(local, github) ==
    SortConfig([github EXCEPT !.repos = RemoveWebhooks(@, NormalizedNames(local, github))])

\* a settings map as serde_yaml writes it: its entries in the iteration order
\* of the HashMap
SettingsYaml(settings, order) == [i \in DOMAIN order |-> <<order[i], settings[order[i]]>>]

\* serde_yaml::to_string of a config; orders[i] is the iteration order of the
\* settings of repo i
ConfigYaml(c, orders) ==
    [c EXCEPT !.repos = [i \in DOMAIN c.repos |->
        [c.repos[i] EXCEPT !.settings = SettingsYaml(@, orders[i])]]]

\* the iteration orders the settings maps of the repos of c may have
IterationOrders(c) ==
    {o \in [DOMAIN c.repos -> UNION {Perms(DOMAIN c.repos[i].settings) : i \in DOMAIN c.repos}] :
        \A i \in DOMAIN c.repos : o[i] \in Perms(DOMAIN c.repos[i].settings)}

\* ---- the runs of diff ----
UnsortedDefaultWebhook == [DefaultWebhook EXCEPT !.events = <<"push", "pull_request">>]

DiffSettingsChoices ==
    {[k \in {"allow_merge_commit"} |-> "true"],
     [k \in {"allow_merge_commit", "allow_squash_merge"} |-> "true"]}

\* an explicit webhook whose events are not in sorted order
UnsortedExplicitWebhook == [ExplicitWebhook EXCEPT !.events = <<"push", "pull_request">>]

DiffRepoChoices ==
    {[name |-> n, settings |-> s, webhook |-> w] :
        n \in RepoNames, s \in DiffSettingsChoices,
        w \in {None, Some(UnsortedExplicitWebhook)}}

Reverse(s) == [i \in DOMAIN s |-> s[Len(s) + 1 - i]]

\* no teams, users and assignments; a team, two users and two assignments,
\* none of them in sorted order; an assignment of a team that is not listed
DiffPeopleChoices ==
    {[teams |-> <<>>, users |-> <<>>, assignments |-> <<>>],
     [teams |-> <<[name |-> "t1", members |-> Reverse(SubSeq(MemberLogins, 1, MaxMembers))]>>,
      users |-> <<[login |-> "u2", role |-> "member"], [login |-> "u1", role |-> "admin"]>>,
      assignments |-> <<[team |-> "t1", repo |-> "r2", permission |-> "push"],
                        [team |-> "t1", repo |-> "r1", permission |-> "push"]>>],
     [teams |-> <<>>, users |-> <<>>,
      assignments |-> <<[team |-> "t1", repo |-> "r1", permission |-> "push"]>>]}

\* the repos of one config have the same settings keys
DiffRepoLists ==
    {r \in NamedLists(DiffRepoChoices, MaxRepos) :
        \A i, j \in DOMAIN r : r[i].settings = r[j].settings}

\* the configs with teams have no explicit webhooks: the two parts of diff
\* do not touch each other
DiffConfigs ==
    {c \in {[org |-> Org, repos |-> r, teams |-> p.teams, users |-> p.users,
             assignments |-> p.assignments, default_webhook |-> d] :
                r \in DiffRepoLists,
                p \in DiffPeopleChoices,
                d \in {None, Some(UnsortedDefaultWebhook)}} :
        c.teams # <<>> => \A i \in DOMAIN c.repos : c.repos[i].webhook = None}

\* as RemoteSynced, with both merge settings, the default hook's events in
\* another order and two events on the other hook
RemoteReordered ==
    [RemoteSynced EXCEPT
        !.settings = [r \in RepoNames |->
                        [k \in {"allow_merge_commit", "allow_squash_merge"} |-> "true"]],
        !.hooks = [r \in RepoNames |->
                     <<HookOf("h1", DefaultWebhook, <<"push", "pull_request">>, "json"),
                       HookOf("h2", ExplicitWebhook, <<"push", "pull_request">>, "json")>>]]

\* the teams, members and permissions that match the local choices
WithPeople(rem) ==
    [rem EXCEPT
        !.teams = [t \in {"t1"} |->
                     [name |-> "t1", members |-> Range(SubSeq(MemberLogins, 1, MaxMembers))]],
        !.roles = [u \in {"u1", "u2"} |-> IF u = "u1" THEN "admin" ELSE "member"],
        !.perms = [p \in {<<"t1", "r1">>, <<"t1", "r2">>} |-> "push"]]

DiffRemotes == {WithPeople(RemoteSynced), RemoteDrifted, WithPeople(RemoteReordered)}

InitDiff ==
    /\ config \in DiffConfigs
    /\ dry_run = FALSE
    /\ remote \in DiffRemotes
    /\ requests = <<>>
    /\ intents = <<>>
    /\ pc = "diff"
    /\ idx = 1
    /\ result = "running"
    /\ snapshot = None
    /\ loaded = None
    /\ diffed = None
    /\ lookups = <<>>
    /\ generated = None
    /\ deploy = None

\* steps 3-8 on the snapshot github: Ok(has_diffs)
Compare(github) ==
    LET local_side == diff_local_config(config, github)
        github_side == diff_github_config(config, github)
    IN  \E local_orders \in IterationOrders(local_side),
           github_orders \in IterationOrders(github_side) :
           LET local_yaml == ConfigYaml(local_side, local_orders)
               github_yaml == ConfigYaml(github_side, github_orders)
           IN  diffed' = Some([local |-> local_side, github |-> github_side,
                               local_yaml |-> local_yaml, github_yaml |-> github_yaml,
                               has_diffs |-> github_yaml # local_yaml])

Diff ==
    /\ pc = "diff"
    /\ \E repo_list \in Perms(DOMAIN remote.settings),
          team_list \in Perms(DOMAIN remote.teams),
          member_list \in Perms(DOMAIN remote.roles),
          team_order \in Perms(LocalTeamNames(config)) :
          \E fails \in FailurePlans(Range(FilteredCalls(remote, config, repo_list, team_list,
                                                        member_list, team_order, EmptyMap))) :
             LET calls == FilteredCalls(remote, config, repo_list, team_list, member_list,
                                        team_order, fails)
                 fatal == FilteredFatal(calls, fails)
                 github == generate_filtered_config_from_org(remote, config, repo_list,
                                team_list, member_list, team_order, fails)
             IN  /\ requests' = requests \o Issued(calls, fails, fatal)
                 /\ IF fatal = {}
                    THEN result' = "ok" /\ snapshot' = Some(github) /\ Compare(github)
                    ELSE result' = "err" /\ snapshot' = None /\ diffed' = None
    /\ pc' = "done"
    /\ UNCHANGED <<config, dry_run, remote, intents, idx, loaded, lookups, generated, deploy>>

NextDiff == Diff

SpecDiff == InitDiff /\ [][NextDiff]_vars

(***************************************************************************)
(* The hand-written mapping table of the repo settings (api_mapping.rs)    *)
(* and lookups in it.                                                      *)
(***************************************************************************)
ApiFieldMapping(resource_type, config_key, endpoint, method, json_path) ==
    [resource_type |-> resource_type, config_key |-> config_key, endpoint |-> endpoint,
     method |-> method, json_path |-> json_path]

\* "/repos/{org}/{repo}"
RepoSettingsEndpoint == <<"repos", "{org}", "{repo}">>

\* a table without allow_rebase_merge
get_repo_settings_mapping_short ==
    [k \in {"allow_merge_commit", "allow_squash_merge"} |->
        ApiFieldMapping("repo", k, RepoSettingsEndpoint, "PATCH", k)]

get_repo_settings_mapping ==
    [k \in {"allow_merge_commit", "allow_squash_merge", "allow_rebase_merge"} |->
        ApiFieldMapping("repo", k, RepoSettingsEndpoint, "PATCH", k)]

\* map.get(key)
MapGet(map, key) == IF key \in DOMAIN map THEN Some(map[key]) ELSE None

MaxLookups == 4

LookupKeys ==
    {"allow_merge_commit", "allow_squash_merge", "allow_rebase_merge",
     "this_key_does_not_exist", "this_field_does_not_exist"}

InitLookup ==
    /\ config = None
    /\ dry_run = FALSE
    /\ remote = None
    /\ requests = <<>>
    /\ intents = <<>>
    /\ pc = "lookup"
    /\ idx = 1
    /\ result = "running"
    /\ snapshot = None
    /\ loaded = None
    /\ diffed = None
    /\ lookups = <<>>
    /\ generated = None
    /\ deploy = None

\* get_repo_settings_mapping().get(key)
Lookup ==
    /\ pc = "lookup"
    /\ Len(lookups) < MaxLookups
    /\ \E key \in LookupKeys :
          lookups' = Append(lookups, [key |-> key,
                                      found |-> MapGet(get_repo_settings_mapping, key)])
    /\ UNCHANGED <<config, dry_run, remote, requests, intents, pc, idx, result, snapshot,
                   loaded, diffed, generated, deploy>>

NextLookup == Lookup

SpecLookup == InitLookup /\ [][NextLookup]_vars

(***************************************************************************)
(* The mapping generator (scripts/generate_api_mapping.rs): it walks the   *)
(* operations of an OpenAPI schema and keeps one mapping per field name.   *)
(***************************************************************************)
MaxOperations == 3

\* one method of one path of the schema with the properties of its request body
Operation(endpoint, method, fields) ==
    [endpoint |-> endpoint, method |-> method, fields |-> fields]

preferred_repo_update_path_start == <<"repos", "{owner}", "{repo}">>
preferred_repo_update_method == "PATCH"

\* endpoint_path.starts_with(prefix), on path segments
StartsWith(endpoint, prefix) ==
    Len(endpoint) >= Len(prefix) /\ SubSeq(endpoint, 1, Len(prefix)) = prefix

\* method.to_uppercase()
ToUppercase(method) ==
    CASE method = "patch" -> "PATCH"
      [] method = "put" -> "PUT"
      [] method = "post" -> "POST"
      [] method = "get" -> "GET"
      [] OTHER -> method

infer_resource_type(endpoint_path) ==
    IF \/ StartsWith(endpoint_path, <<"repos", "{owner}", "{repo}">>)
       \/ StartsWith(endpoint_path, <<"repos", "{org}", "{repo}">>) THEN "repo"
    ELSE IF StartsWith(endpoint_path, <<"orgs", "{org}">>) THEN "org"
    ELSE IF StartsWith(endpoint_path, <<"user">>)
         THEN (IF endpoint_path = <<"user", "repos">> THEN "repo_create_user" ELSE "user")
    ELSE IF \E i \in DOMAIN endpoint_path : endpoint_path[i] = "teams" THEN "team"
    ELSE "other"

\* is_current_preferred, is_existing_preferred
IsPreferred(endpoint, method) ==
    StartsWith(endpoint, preferred_repo_update_path_start) /\ method = preferred_repo_update_method

\* the prioritization logic
should_insert(generated_map, field_name, endpoint, method) ==
    IF field_name \in DOMAIN generated_map
    THEN LET existing_mapping == generated_map[field_name]
             is_current_preferred == IsPreferred(endpoint, method)
             is_existing_preferred ==
                 IsPreferred(existing_mapping.endpoint, existing_mapping.method)
         IN  \/ is_current_preferred /\ ~is_existing_preferred
             \/ ~is_current_preferred /\ ~is_existing_preferred
    ELSE TRUE

\* the body of the loops for one method of one path
ProcessOperation(generated_map, op) ==
    IF op.method \notin {"patch", "put", "post"} THEN generated_map
    ELSE LET method_upper == ToUppercase(op.method)
             inserted == {f \in op.fields :
                             should_insert(generated_map, f, op.endpoint, method_upper)}
         IN  [k \in DOMAIN generated_map \cup inserted |->
                 IF k \in inserted
                 THEN ApiFieldMapping(infer_resource_type(op.endpoint), k, op.endpoint,
                                      method_upper, k)
                 ELSE generated_map[k]]

\* generated_map after the operations ops, starting from generated_map
RECURSIVE GenerateFrom(_, _)
GenerateFrom(generated_map, ops) ==
    IF ops = <<>> THEN generated_map
    ELSE GenerateFrom(ProcessOperation(generated_map, Head(ops)), Tail(ops))

\* ---- the runs of the generator ----
OrgEndpoint == <<"orgs", "{org}">>

OperationPool ==
    {Operation(<<"repos", "{owner}", "{repo}">>, "patch", {"name", "description"}),
     Operation(<<"repos", "{owner}", "{repo}", "releases", "{release_id}">>, "patch", {"name"}),
     Operation(OrgEndpoint, "patch", {"name", "description"}),
     Operation(OrgEndpoint, "get", {"name"}),
     Operation(<<"orgs", "{org}", "teams", "{team_slug}">>, "patch", {"name"})}

\* the methods of one path are processed together
Grouped(ops) ==
    \A i, j \in DOMAIN ops :
        (i < j /\ ops[i].endpoint = ops[j].endpoint) =>
            \A k \in i..j : ops[k].endpoint = ops[i].endpoint

\* the orders in which the schema may hand out at most MaxOperations operations
Schemas ==
    UNION {{ops \in [1..n -> OperationPool] :
                /\ \A i, j \in 1..n : i # j => ops[i] # ops[j]
                /\ Grouped(ops)} : n \in 0..MaxOperations}

InitGenerate ==
    /\ config \in {ConfigOfRepo([name |-> "r1", settings |-> EmptyMap, webhook |-> None])}
    /\ dry_run = FALSE
    /\ remote \in {RemoteFresh}
    /\ requests = <<>>
    /\ intents = <<>>
    /\ pc = "generate"
    /\ idx = 1
    /\ result = "running"
    /\ snapshot = None
    /\ loaded = None
    /\ diffed = None
    /\ lookups = <<>>
    /\ \E ops \in Schemas : generated = Some([operations |-> ops, map |-> EmptyMap])
    /\ deploy = None

GenerateOperation ==
    /\ pc = "generate"
    /\ idx <= Len(Unwrap(generated).operations)
    /\ generated' = Some([Unwrap(generated) EXCEPT
                            !.map = ProcessOperation(@, Unwrap(generated).operations[idx])])
    /\ idx' = idx + 1
    /\ UNCHANGED <<config, dry_run, remote, requests, intents, pc, result, snapshot, loaded,
                   diffed, lookups, deploy>>

\* the mappings are printed by sorted key
GenerateOutput ==
    /\ pc = "generate"
    /\ idx > Len(Unwrap(generated).operations)
    /\ pc' = "done"
    /\ result' = "ok"
    /\ UNCHANGED <<config, dry_run, remote, requests, intents, idx, snapshot, loaded, diffed,
                   lookups, generated, deploy>>

NextGenerate == GenerateOperation \/ GenerateOutput

SpecGenerate == InitGenerate /\ [][NextGenerate]_vars

(***************************************************************************)
(* Deploy keys (main.rs 51-81): after update_repo_settings, run checks     *)
(* the deploy key and the secret of the repo and creates what is missing   *)
(* from a freshly generated key pair.  A key or a secret is modelled by    *)
(* the number of the pair it comes from: 0 for the pair that existed       *)
(* before, n for the n-th pair generated.                                  *)
(***************************************************************************)
MaxPasses == 3

\* the calls of one apply-mode pass, given what exists
DeployKeySteps(key_exists, secret_exists) ==
    <<"deploy_key_exists", "repo_secret_exists">>
    \o (IF key_exists /\ secret_exists THEN <<>>
        ELSE <<"generate_key_pair">>
             \o (IF ~key_exists THEN <<"create_deploy_key">> ELSE <<>>)
             \o (IF ~secret_exists THEN <<"create_repo_secret">> ELSE <<>>))

\* the state of the keys after the calls that succeeded: the steps before
\* failAt, or all of them when failAt = 0
DeployKeyPass(d, failAt) ==
    LET steps == DeployKeySteps(IsSome(d.key), IsSome(d.secret))
        done == IF failAt = 0 THEN steps ELSE SubSeq(steps, 1, failAt - 1)
        did(step) == \E i \in DOMAIN done : done[i] = step
        pair == d.pairs + 1
    IN  [d EXCEPT !.pairs = IF did("generate_key_pair") THEN pair ELSE @,
                  !.key = IF did("create_deploy_key") THEN Some(pair) ELSE @,
                  !.secret = IF did("create_repo_secret") THEN Some(pair) ELSE @,
                  !.calls = @ \o (IF failAt = 0 THEN steps ELSE SubSeq(steps, 1, failAt))]

\* a repo with or without deploy_key, the name of the key and of the secret
DeployRepos ==
    {[name |-> "r1", settings |-> EmptyMap, webhook |-> None, deploy_key |-> k] :
        k \in {None, Some("deploy")}}

InitDeploy ==
    /\ \E repo \in DeployRepos : config = ConfigOfRepo(repo)
    /\ dry_run \in BOOLEAN
    /\ remote = RemoteOfRepo("r1", EmptyMap, <<>>)
    /\ requests = <<>>
    /\ intents = <<>>
    /\ pc = "run"
    /\ idx = 1
    /\ result = "running"
    /\ snapshot = None
    /\ loaded = None
    /\ diffed = None
    /\ lookups = <<>>
    /\ generated = None
    /\ \E key \in {None, Some(0)}, secret \in {None, Some(0)} :
          deploy = Some([key |-> key, secret |-> secret, pairs |-> 0, calls |-> <<>>])

\* one run of the command over the repo: idx counts the runs; a dry run
\* only logs that it would check and generate
RunDeployKey ==
    /\ pc = "run"
    /\ idx <= MaxPasses
    /\ \E returned \in {"ok", "err"} :
          /\ DoUpdateRepoSettings(config.repos[1], returned)
          /\ IF returned = "err"
             THEN result' = "err" /\ UNCHANGED deploy
             ELSE IF config.repos[1].deploy_key = None \/ dry_run
             THEN result' = "ok" /\ UNCHANGED deploy
             ELSE \E failAt \in 0..Len(DeployKeySteps(IsSome(Unwrap(deploy).key),
                                                      IsSome(Unwrap(deploy).secret))) :
                      /\ deploy' = Some(DeployKeyPass(Unwrap(deploy), failAt))
                      /\ result' = Returned(failAt)
    /\ idx' = idx + 1
    /\ UNCHANGED <<config, dry_run, pc, snapshot, loaded, diffed, lookups, generated>>

NextDeploy == RunDeployKey

SpecDeploy == InitDeploy /\ [][NextDeploy]_vars

(***************************************************************************)
(* Properties.                                                             *)
(***************************************************************************)
\* the requests a step adds to the log
NewRequests == SubSeq(requests', Len(requests) + 1, Len(requests'))

IsHookUrl(u) == Len(u) >= 4 /\ u[1] = "repos" /\ u[4] = "hooks"
IsHookWrite(r) == IsWrite(r) /\ IsHookUrl(r.url)
IsSettingsWrite(r) == IsWrite(r) /\ r.url[1] = "repos" /\ ~IsHookUrl(r.url)
IsMemberPut(r) == r.m = "PUT" /\ Len(r.url) = 6 /\ r.url[5] = "memberships"
IsTeamPost(r) == r.m = "POST" /\ r.url = TeamsUrl

\* C1: in a dry-run sync no PATCH, PUT or POST is ever issued, on any path,
\* including the runs that end in an error: every request is a GET.
C1_DryRunOnlyReads ==
    dry_run => \A i \in DOMAIN requests : requests[i].m = "GET"

\* a dry run that logged intended writes and then ended in an error
C1_Witness ==
    /\ dry_run
    /\ result = "err"
    /\ \E i \in DOMAIN intents : intents[i].body.act = "write"
    /\ \E i \in DOMAIN intents : intents[i].body.act = "create_team"
    /\ Len(requests) > 3

\* the desired keys the table maps and whose desired value is not the observed one
DifferingKeys(desired, observed) ==
    {k \in DOMAIN desired \cap DOMAIN Mapping :
        k \notin DOMAIN observed \/ observed[k] # desired[k]}

EndpointUrl(k, repo_name) == Substitute(Mapping[k].endpoint, Org, repo_name)

\* the body a write to url must carry: json_path -> desired value of the differing keys of url
ExpectedBody(desired, observed, repo_name, url, body) ==
    LET K == {k \in DifferingKeys(desired, observed) : EndpointUrl(k, repo_name) = url}
    IN  /\ DOMAIN body = {Mapping[k].json_path : k \in K}
        /\ \A k \in K : body[Mapping[k].json_path] = desired[k]

C3_WebhookDecisionTable ==
    [][(/\ pc = "call"
        /\ ~dry_run
        /\ IsSome(config.repos[1].webhook)
        /\ \E i \in DOMAIN NewRequests :
              NewRequests[i].m = "GET" /\ NewRequests[i].url = HooksUrl(config.repos[1].name)
                                       /\ NewRequests[i].ok) =>
        LET name == config.repos[1].name
            webhook == Unwrap(config.repos[1].webhook)
            hooks == remote.hooks[name]
            M == {i \in DOMAIN hooks : hooks[i].config.url = webhook.url}
            W == SelectSeq(NewRequests, IsHookWrite)
        IN  IF M = {}
            THEN Len(W) = 1 /\ W[1].m = "POST" /\ W[1].url = HooksUrl(name)
            ELSE LET h == hooks[CHOOSE i \in M : \A j \in M : i <= j]
                 IN  IF h.events # webhook.events \/ h.config.content_type # webhook.content_type
                     THEN Len(W) = 1 /\ W[1].m = "PATCH" /\ W[1].url = HookUrl(name, h.id)
                     ELSE W = <<>>
    ]_vars

\* two hooks carry the desired url; the first one differs and is the one updated
C3_Witness ==
    /\ ~dry_run
    /\ pc = "done"
    /\ IsSome(config.repos[1].webhook)
    /\ \E i \in DOMAIN requests : requests[i].m = "PATCH" /\ requests[i].url = HookUrl("r1", "h1")
    /\ Len(remote.hooks["r1"]) = 2
    /\ remote.hooks["r1"][2].config.url = Unwrap(config.repos[1].webhook).url

\* the membership PUTs of a team's members, in list order, whatever their outcome
IsMemberPutsOf(reqs, team) ==
    /\ Len(reqs) = Len(team.members)
    /\ \A j \in DOMAIN reqs :
          reqs[j].m = "PUT" /\ reqs[j].url = TeamMemberUrl(team.name, team.members[j])

\* C4: create_team in apply mode for a team absent remotely issues the POST and
\* then one membership PUT per member in list order; a failed member PUT does
\* not stop the later PUTs and create_team returns success, so sync goes on.
C4_NewTeamMemberFailureTolerated ==
    [][(/\ pc = "teams"
        /\ ~dry_run
        /\ idx <= Len(config.teams)
        /\ config.teams[idx].name \notin DOMAIN remote.teams
        /\ Len(NewRequests) >= 2
        /\ IsTeamPost(NewRequests[2])
        /\ NewRequests[2].ok) =>
        /\ IsMemberPutsOf(SubSeq(NewRequests, 3, Len(NewRequests)), config.teams[idx])
        /\ idx' = idx + 1
        /\ pc' = pc
    ]_vars

C6_UserWriteOnlyWhenNeeded ==
    [][(pc = "users" /\ ~dry_run /\ idx <= Len(config.users)) =>
        LET user == config.users[idx]
        IN  /\ NewRequests # <<>>
            /\ NewRequests[1].m = "GET"
            /\ NewRequests[1].url = MembershipUrl(user.login)
            /\ (user.login \in DOMAIN remote.roles /\ remote.roles[user.login] = user.role)
                  => \A i \in DOMAIN NewRequests : ~IsWrite(NewRequests[i])
    ]_vars

\* C7: assign_team_to_repo in apply mode reads the team's current permission on
\* the repo first and issues the PUT only when the permission is absent or
\* differs; with an equal permission it issues no write.
C7_AssignmentWriteOnlyWhenNeeded ==
    [][(pc = "assignments" /\ ~dry_run /\ idx <= Len(config.assignments)) =>
        LET a == config.assignments[idx]
        IN  /\ NewRequests # <<>>
            /\ NewRequests[1].m = "GET"
            /\ NewRequests[1].url = TeamRepoUrl(a.team, a.repo)
            /\ (<<a.team, a.repo>> \in DOMAIN remote.perms
                  /\ remote.perms[<<a.team, a.repo>>] = a.permission)
                  => \A i \in DOMAIN NewRequests : ~IsWrite(NewRequests[i])
    ]_vars

\* C8: in an apply-mode sync a failed single-resource write (settings write,
\* webhook create or update, team POST, user PUT, assignment PUT) is the last
\* HTTP request of the run, and sync returns the error.
C8_FailedWriteAbortsSync ==
    ~dry_run =>
        \A i \in DOMAIN requests :
            (IsWrite(requests[i]) /\ ~requests[i].ok /\ ~IsMemberPut(requests[i])) =>
                /\ i = Len(requests)
                /\ pc = "done"
                /\ result = "err"

\* the settings write of the first of two repos failed: its webhook, the second
\* repo, the team, the user and the assignment were all left untouched
C8_Witness ==
    /\ ~dry_run
    /\ pc = "done"
    /\ result = "err"
    /\ Len(config.repos) = 2
    /\ IsSome(config.repos[1].webhook)
    /\ config.teams # <<>> /\ config.users # <<>> /\ config.assignments # <<>>
    /\ Len(requests) = 2
    /\ IsSettingsWrite(requests[2])
    /\ ~requests[2].ok
    /\ requests[2].url[3] = config.repos[1].name

\* the loaded config fails validation: a blank repo name, or a repo without
\* webhook while no default_webhook is set
HasValidationError(cfg) ==
    \/ \E i \in DOMAIN cfg.repos : IsBlank(cfg.repos[i].name)
    \/ ~IsSome(cfg.default_webhook) /\ SomeRepoLacksWebhook(cfg)

\* C9: a config with a validation error, whatever the position of the
\* offending repo, makes sync return an error having issued no HTTP request.
C9_ValidationBeforeNetwork ==
    HasValidationError(config) =>
        /\ requests = <<>>
        /\ pc = "done" => result = "err"

\* a GET answered "404" by one of the existence checks, read as "absent"
IsAbsentAnswer(r) ==
    r.m = "GET" /\ ~r.ok /\ r.has404 /\ Len(r.url) = 4 /\ r.url[3] = "memberships"

\* C10: in a snapshot build (filtered for diff, unfiltered for sync-from-org)
\* every failed API call - a failed repo-settings GET, hooks GET, teams GET,
\* members GET or team-repos GET included - makes the operation return an
\* error; no failure is logged and skipped.
C10_SnapshotFailuresPropagate ==
    (pc = "done" /\ \E i \in DOMAIN requests : ~requests[i].ok /\ ~IsAbsentAnswer(requests[i]))
        => result = "err" /\ snapshot = None

\* the GET of get_team, get_user_membership or get_team_repo_permission
IsExistenceGet(r) ==
    /\ r.m = "GET"
    /\ r.url[1] = "orgs"
    /\ \/ Len(r.url) = 4 /\ r.url[3] \in {"teams", "memberships"}
       \/ Len(r.url) = 7 /\ r.url[3] = "teams" /\ r.url[5] = "repos"

\* C11: an existence check whose GET was not answered 2xx reports "absent"
\* exactly when the status is 404: any other status is returned as an error and
\* a 404 never is, whatever the body text holds.  (An error returned by an
\* existence check ends the sync at that request.)
C11_AbsentExactlyOn404 ==
    \A i \in DOMAIN requests :
        (IsExistenceGet(requests[i]) /\ ~requests[i].ok) =>
            (requests[i].status = 404 <=> ~(i = Len(requests) /\ result = "err"))

\* the loop of sync a request belongs to: 1 repos, 2 teams, 3 users, 4 assignments
Phase(r) ==
    CASE r.url[1] = "repos" -> 1
      [] r.url[1] = "orgs" /\ r.url[3] = "teams" /\ Len(r.url) # 7 -> 2
      [] r.url[1] = "orgs" /\ r.url[3] = "memberships" -> 3
      [] OTHER -> 4

\* C12: sync issues its calls in the order repos, teams, users, assignments;
\* the first call for a repo is its settings read, and no webhook call of a
\* repo comes before a settings call of that repo.
C12_CallOrder ==
    \A i, j \in DOMAIN requests :
        i < j =>
            /\ Phase(requests[i]) <= Phase(requests[j])
            /\ (Phase(requests[i]) = 1 /\ Phase(requests[j]) = 1
                  /\ requests[i].url[3] = requests[j].url[3] /\ IsHookUrl(requests[i].url))
                => IsHookUrl(requests[j].url)
            /\ (Phase(requests[j]) = 1 /\ requests[j].m = "GET" /\ ~IsHookUrl(requests[j].url)
                  /\ Phase(requests[i]) = 1)
                => requests[i].url[3] # requests[j].url[3]

\* an apply-mode sync that wrote settings, a webhook, a team with its members,
\* a user and an assignment, and came to its end
C12_Witness ==
    /\ ~dry_run
    /\ pc = "done"
    /\ result = "ok"
    /\ Len(config.repos) = 2
    /\ \E i \in DOMAIN requests : IsSettingsWrite(requests[i])
    /\ \E i \in DOMAIN requests : IsHookWrite(requests[i])
    /\ \E i \in DOMAIN requests : IsTeamPost(requests[i])
    /\ \E i \in DOMAIN requests : IsMemberPut(requests[i])
    /\ \E i \in DOMAIN requests : Phase(requests[i]) = 3
    /\ \E i \in DOMAIN requests : Phase(requests[i]) = 4

\* ---- the config loader ----
Main == Unwrap(loaded).main
Defaults == Unwrap(loaded).defaults
Merged == Unwrap(Unwrap(loaded).merged)
IsLoaded == IsSome(loaded) /\ pc = "done"

SameName(a, b) == IsSome(NameOf(b)) /\ NameOf(a) = NameOf(b)

\* r is m with its gaps filled from d: nothing of m is lost, and what r holds
\* beyond m comes from d where m lacks it
RECURSIVE Fills(_, _, _)
Fills(m, d, r) ==
    CASE IsMapping(m) /\ IsMapping(d) ->
            /\ IsMapping(r)
            /\ DOMAIN r[2] = DOMAIN m[2] \cup DOMAIN d[2]
            /\ \A k \in DOMAIN r[2] :
                  IF k \notin DOMAIN m[2] THEN r[2][k] = d[2][k]
                  ELSE IF k \notin DOMAIN d[2] THEN r[2][k] = m[2][k]
                  ELSE Fills(m[2][k], d[2][k], r[2][k])
      [] IsSequence(m) /\ IsSequence(d) ->
            /\ IsSequence(r)
            /\ IF m[2] = <<>> THEN r = d
               ELSE /\ \A i \in DOMAIN m[2] : \E j \in DOMAIN r[2] :
                          \/ r[2][j] = m[2][i]
                          \/ \E e \in Range(d[2]) :
                                SameName(m[2][i], e) /\ Fills(m[2][i], e, r[2][j])
                    /\ \A j \in DOMAIN r[2] :
                          \/ \E i \in DOMAIN m[2] : r[2][j] = m[2][i]
                          \/ \E i \in DOMAIN m[2] : \E e \in Range(d[2]) :
                                SameName(m[2][i], e) /\ Fills(m[2][i], e, r[2][j])
                          \/ \E e \in Range(d[2]) :
                                /\ r[2][j] = e
                                /\ \A i \in DOMAIN m[2] :
                                      m[2][i] # e /\ ~SameName(m[2][i], e)
      [] OTHER -> r = m

C14_MergeIdempotent ==
    IsLoaded => merge_with_defaults(Merged, Defaults) = Merged

EmptyMapping == MappingOf(EmptyMap)

\* C15 (as stated): the empty mapping is an identity of merge_with_defaults
\* on both sides: merge(main, {}) = main for any main and
\* merge({}, defaults) = defaults for any defaults.
C15_EmptyMappingIdentity ==
    IsLoaded =>
        /\ Defaults = EmptyMapping => Merged = Main
        /\ Main = EmptyMapping => Merged = Defaults

\* C15 (amended): merge(main, {}) = main for any main, and
\* merge({}, defaults) = defaults for any defaults that is a mapping.
C15_EmptyMappingIdentityOnMappings ==
    IsLoaded =>
        /\ Defaults = EmptyMapping => Merged = Main
        /\ (Main = EmptyMapping /\ IsMapping(Defaults)) => Merged = Defaults

\* an empty main file merged with a defaults file that declares repos
C15_Witness ==
    /\ IsLoaded
    /\ Main = EmptyMapping
    /\ IsMapping(Defaults) /\ "repos" \in DOMAIN Defaults[2]
    /\ Defaults[2]["repos"][2] # <<>>
    /\ Merged = Defaults

\* for every key of both records the main value wins, nested mappings key by
\* key, and the keys only e has are filled in
RECURSIVE MainWins(_, _, _)
MainWins(m, e, r) ==
    /\ IsMapping(r)
    /\ DOMAIN r[2] = DOMAIN m[2] \cup DOMAIN e[2]
    /\ \A k \in DOMAIN r[2] :
          IF k \notin DOMAIN m[2] THEN r[2][k] = e[2][k]
          ELSE IF k \notin DOMAIN e[2] THEN r[2][k] = m[2][k]
          ELSE IF IsMapping(m[2][k]) /\ IsMapping(e[2][k])
               THEN MainWins(m[2][k], e[2][k], r[2][k])
               ELSE r[2][k] = m[2][k]

\* main item i is the first of its name and some default item has that name
MatchedMain(i) ==
    /\ \E e \in Range(Defaults[2]) : SameName(Main[2][i], e)
    /\ \A i2 \in 1..(i - 1) : NameOf(Main[2][i2]) # NameOf(Main[2][i])

UnmatchedMain == {i \in DOMAIN Main[2] : ~MatchedMain(i)}

HasDiffed == pc = "done" /\ result = "ok" /\ IsSome(diffed)

\* the first hook of the repo on GitHub with the url of the default webhook
\* has the content type and the events of the default, in any order
RemoteHookIsDefault(name) ==
    LET d == Unwrap(config.default_webhook)
        hook == FindHook(remote.hooks[name], d.url)
    IN  /\ IsSome(hook)
        /\ Unwrap(hook).config.content_type = d.content_type
        /\ Range(Unwrap(hook).events) = Range(d.events)
        /\ Len(Unwrap(hook).events) = Len(d.events)

\* C17: for a local repo without explicit webhook, when default_webhook is
\* set and the repo's hook on GitHub for the default url has the content
\* type and the events of the default (in any order), diff removes the
\* webhook from both sides, so that the webhook sections of the repo are
\* equal; the webhook of a repo that was explicit locally is never removed.
C17_DefaultWebhookNormalized ==
    HasDiffed =>
        \A i \in DOMAIN config.repos :
            LET name == config.repos[i].name
                local_repo == FindRepo(Unwrap(diffed).local.repos, name)
                github_repo == FindRepo(Unwrap(diffed).github.repos, name)
            IN  /\ ( /\ ~IsSome(config.repos[i].webhook)
                     /\ IsSome(config.default_webhook)
                     /\ RemoteHookIsDefault(name) ) =>
                        /\ Unwrap(local_repo).webhook = None
                        /\ IsSome(github_repo)
                        /\ Unwrap(github_repo).webhook = None
                /\ IsSome(config.repos[i].webhook) => IsSome(Unwrap(local_repo).webhook)

\* C18: diff returns has_differences = false exactly when the normalized
\* local config and the normalized GitHub config are equal, whatever the
\* iteration order of the settings maps when they are serialized.
C18_NoDifferenceIffEqual ==
    HasDiffed =>
        (~Unwrap(diffed).has_diffs <=> Unwrap(diffed).local = Unwrap(diffed).github)

\* C19: the filtered snapshot built for diff holds only resources declared
\* locally: every repo, team and user of it is named in the local config,
\* every assignment of it is a (team, repo) pair of the local assignments,
\* and the settings of every repo of it have exactly the keys of the local
\* repo's settings, a key GitHub does not return having the value null.
C19_FilteredSnapshotOnlyLocal ==
    (pc = "done" /\ result = "ok" /\ IsSome(snapshot)) =>
        LET github == Unwrap(snapshot)
        IN  /\ \A i \in DOMAIN github.repos :
                  LET local_repo == FindRepo(config.repos, github.repos[i].name)
                      returned == get_repo_settings(remote, github.repos[i].name)
                  IN  /\ IsSome(local_repo)
                      /\ DOMAIN github.repos[i].settings = DOMAIN Unwrap(local_repo).settings
                      /\ \A k \in DOMAIN github.repos[i].settings :
                            github.repos[i].settings[k] =
                                IF k \in DOMAIN returned THEN returned[k] ELSE "null"
            /\ \A i \in DOMAIN github.teams : github.teams[i].name \in LocalTeamNames(config)
            /\ \A i \in DOMAIN github.users : github.users[i].login \in LocalUserLogins(config)
            /\ \A i \in DOMAIN github.assignments :
                  <<github.assignments[i].team, github.assignments[i].repo>>
                      \in LocalAssignmentsSet(config)

\* GitHub has r1 and r2, the local config only r1 with a key GitHub does not
\* return, a team, a user and an assignment: the snapshot holds r1 alone
C19_Witness ==
    /\ pc = "done" /\ result = "ok" /\ IsSome(snapshot)
    /\ LocalRepoNames(config) = {"r1"}
    /\ "r2" \in DOMAIN remote.settings
    /\ Len(Unwrap(snapshot).repos) = 1
    /\ "allow_squash_merge" \in DOMAIN Unwrap(snapshot).repos[1].settings
    /\ Unwrap(snapshot).repos[1].settings["allow_squash_merge"] = "null"
    /\ Unwrap(snapshot).repos[1].settings["allow_merge_commit"] # "null"
    /\ Unwrap(snapshot).teams # <<>>
    /\ Unwrap(snapshot).users # <<>>
    /\ Unwrap(snapshot).assignments # <<>>

\* ---- the mapping table of the repo settings ----
\* the endpoint contains "/repos/"
ContainsRepos(endpoint) == Len(endpoint) > 1 /\ Head(endpoint) = "repos"

\* C20: looking up allow_merge_commit, allow_squash_merge or
\* allow_rebase_merge yields a mapping whose endpoint contains /repos/, the
\* same repo endpoint for the three, whose method is PATCH and whose
\* json_path is the key; looking up a key that is not in the table yields no
\* mapping.
C20_MappingLookup ==
    \A i \in DOMAIN lookups :
        IF lookups[i].key \in {"allow_merge_commit", "allow_squash_merge", "allow_rebase_merge"}
        THEN /\ IsSome(lookups[i].found)
             /\ ContainsRepos(Unwrap(lookups[i].found).endpoint)
             /\ Unwrap(lookups[i].found).method = "PATCH"
             /\ Unwrap(lookups[i].found).json_path = lookups[i].key
             /\ \A j \in DOMAIN lookups :
                   IsSome(lookups[j].found) =>
                       Unwrap(lookups[j].found).endpoint = Unwrap(lookups[i].found).endpoint
        ELSE lookups[i].found = None

\* the three merge settings and an unknown key have been looked up
C20_Witness ==
    /\ {lookups[i].key : i \in DOMAIN lookups} =
          {"allow_merge_commit", "allow_squash_merge", "allow_rebase_merge",
           "this_key_does_not_exist"}
    /\ \E i \in DOMAIN lookups : lookups[i].found = None
    /\ \E i \in DOMAIN lookups :
          /\ lookups[i].key = "allow_rebase_merge"
          /\ IsSome(lookups[i].found)

\* ---- grouping of the settings writes ----
\* C21: pending settings writes are grouped by (endpoint, method): every
\* settings write carries only keys whose mapping declares the method the
\* write is sent with, so two differing keys of one endpoint url with
\* different methods go out as two writes.
C21_WritesGroupedByEndpointAndMethod ==
    \A i \in DOMAIN requests :
        IsSettingsWrite(requests[i]) =>
            \A k \in DOMAIN Mapping :
                Mapping[k].json_path \in DOMAIN requests[i].body =>
                    Mapping[k].method = requests[i].m

\* ---- webhook events as a set ----
NewIntents == SubSeq(intents', Len(intents) + 1, Len(intents'))

\* C22: manage_webhooks compares events as sets: when the first hook with
\* the desired url has the desired content_type and the desired events, in
\* whatever order, no hook write is issued and a dry run reports no
\* would-be update.
C22_EventsComparedAsSets ==
    [][(/\ pc = "call"
        /\ IsSome(config.repos[1].webhook)
        /\ LET webhook == Unwrap(config.repos[1].webhook)
               existing == FindHook(remote.hooks[config.repos[1].name], webhook.url)
           IN  /\ IsSome(existing)
               /\ Unwrap(existing).config.content_type = webhook.content_type
               /\ Range(Unwrap(existing).events) = Range(webhook.events)) =>
        /\ \A i \in DOMAIN NewRequests : ~IsHookWrite(NewRequests[i])
        /\ \A i \in DOMAIN NewIntents : NewIntents[i].body.act # "update_webhook"
    ]_vars

\* ---- event order in diff ----
\* C23: in diff the order of webhook events is irrelevant: a local repo
\* with an explicit webhook and a hook on GitHub with the same url, the same
\* content_type and the same set of events show no webhook difference,
\* whatever the order of the events in the local file, with and without a
\* default_webhook (stated for the runs in which every request succeeded).
C23_DiffIgnoresEventOrder ==
    HasDiffed =>
        \A i \in DOMAIN config.repos :
            LET name == config.repos[i].name
                local_repo == FindRepo(Unwrap(diffed).local.repos, name)
                github_repo == FindRepo(Unwrap(diffed).github.repos, name)
            IN  ( /\ IsSome(config.repos[i].webhook)
                  /\ LET webhook == Unwrap(config.repos[i].webhook)
                         hook == FindHook(remote.hooks[name], webhook.url)
                     IN  /\ IsSome(hook)
                         /\ Unwrap(hook).config.content_type = webhook.content_type
                         /\ Range(Unwrap(hook).events) = Range(webhook.events)
                  /\ \A j \in DOMAIN requests : requests[j].ok ) =>
                    /\ IsSome(github_repo)
                    /\ Unwrap(local_repo).webhook = Unwrap(github_repo).webhook

\* ---- collection order in diff ----
\* the GETs of the run that failed, with their answers
FailsOfRun ==
    LET F == {j \in DOMAIN requests : ~requests[j].ok}
    IN  [u \in {requests[j].url : j \in F} |->
            LET j == CHOOSE j \in F : requests[j].url = u
            IN  [status |-> requests[j].status, has404 |-> requests[j].has404]]

\* c with its repos, teams, members, users and assignments listed in
\* sorted order: the common rearrangement of all the configs that differ from
\* c in the order of their collections only
InOrder(c) ==
    [c EXCEPT !.repos = SortByName(@, RepoOrder),
              !.teams = [i \in DOMAIN SortByName(@, TeamOrder) |->
                            [SortByName(@, TeamOrder)[i] EXCEPT
                                !.members = Sorted(Range(@), MemberLogins)]],
              !.users = SortByLogin(@, MemberLogins),
              !.assignments = SortAssignments(@)]

\* C24: the result of diff does not depend on the order of the collections:
\* whatever the order of the repos, teams, members, users and assignments in
\* the local config and in the listings of GitHub, the two sides that are
\* serialized are those of the run on the rearranged config with the same
\* GETs failing, and so is has_differences for the same serialization of the
\* settings.
C24_DiffIgnoresCollectionOrder ==
    HasDiffed =>
        LET local == InOrder(config)
            github == generate_filtered_config_from_org(remote, local,
                          Sorted(DOMAIN remote.settings, RepoOrder),
                          Sorted(DOMAIN remote.teams, TeamOrder),
                          Sorted(DOMAIN remote.roles, MemberLogins),
                          Sorted(LocalTeamNames(local), TeamOrder), FailsOfRun)
            local_side == diff_local_config(local, github)
            github_side == diff_github_config(local, github)
        IN  /\ local_side = Unwrap(diffed).local
            /\ github_side = Unwrap(diffed).github
            /\ \A local_orders \in IterationOrders(local_side),
                  github_orders \in IterationOrders(github_side) :
                  (/\ ConfigYaml(local_side, local_orders) = Unwrap(diffed).local_yaml
                   /\ ConfigYaml(github_side, github_orders) = Unwrap(diffed).github_yaml) =>
                      (ConfigYaml(github_side, github_orders)
                         # ConfigYaml(local_side, local_orders)) = Unwrap(diffed).has_diffs

\* a run on two repos, a team of two, two users and two assignments, none
\* of them listed in sorted order, that found no difference
C24_Witness ==
    /\ HasDiffed
    /\ ~Unwrap(diffed).has_diffs
    /\ Len(config.repos) = 2 /\ config.repos[1].name = "r2"
    /\ Len(config.teams) = 1 /\ config.teams[1].members[1] # MemberLogins[1]
    /\ Len(config.users) = 2 /\ config.users[1].login = "u2"
    /\ Len(config.assignments) = 2 /\ config.assignments[1].repo = "r2"

\* ---- order of a merged sequence ----
\* the default elements that match no main element
UnmatchedDefaults ==
    {j \in DOMAIN Defaults[2] : \A i \in DOMAIN Main[2] : ~SameName(Main[2][i], Defaults[2][j])}

\* C25: merging two non-empty sequences yields the main elements, in their
\* order, each matched one merged with the default element of its name and
\* the others as they are, followed by the default elements that matched no
\* main element.
C25_MainElementsThenUnmatchedDefaults ==
    (IsLoaded /\ IsSequence(Main) /\ IsSequence(Defaults)
        /\ Main[2] # <<>> /\ Defaults[2] # <<>>) =>
        /\ IsSequence(Merged)
        /\ Len(Merged[2]) = Len(Main[2]) + Cardinality(UnmatchedDefaults)
        /\ \A i \in DOMAIN Main[2] :
              IF \E j \in DOMAIN Defaults[2] : SameName(Main[2][i], Defaults[2][j])
              THEN \E j \in DOMAIN Defaults[2] :
                      /\ SameName(Main[2][i], Defaults[2][j])
                      /\ Fills(Main[2][i], Defaults[2][j], Merged[2][i])
              ELSE Merged[2][i] = Main[2][i]
        /\ \A j \in UnmatchedDefaults :
              Merged[2][Len(Main[2]) + Cardinality({j2 \in UnmatchedDefaults : j2 <= j})]
                  = Defaults[2][j]

\* ---- the default-webhook back-fill of sync ----
\* C26: the back-fill at the start of sync changes only the repos that have
\* no webhook: with a default_webhook, afterwards every repo that had no
\* webhook carries a copy of it, every repo with an explicit webhook keeps it,
\* and no other field of the config changes; with no default_webhook and
\* some repo without webhook, sync returns an error, nothing sent.
C26_BackfillOnlyMissingWebhooks ==
    [][pc = "start" =>
        IF IsSome(config.default_webhook)
        THEN /\ pc' = "repos"
             /\ Len(config'.repos) = Len(config.repos)
             /\ \A i \in DOMAIN config.repos :
                   /\ config'.repos[i].name = config.repos[i].name
                   /\ config'.repos[i].settings = config.repos[i].settings
                   /\ IF IsSome(config.repos[i].webhook)
                      THEN config'.repos[i].webhook = config.repos[i].webhook
                      ELSE config'.repos[i].webhook = config.default_webhook
             /\ config' = [config EXCEPT !.repos = config'.repos]
        ELSE /\ config' = config
             /\ IF \E i \in DOMAIN config.repos : config.repos[i].webhook = None
                THEN pc' = "done" /\ result' = "err" /\ requests' = <<>> /\ intents' = <<>>
                ELSE pc' = "repos"
    ]_vars

\* after the back-fill: a repo that kept its explicit webhook next to a repo
\* that carries the default webhook
C26_Witness ==
    /\ pc = "repos" /\ idx = 1 /\ requests = <<>>
    /\ IsSome(config.default_webhook)
    /\ Len(config.repos) = 2
    /\ config.repos[1].webhook = Some(ExplicitWebhook)
    /\ config.repos[2].webhook = config.default_webhook

\* ---- the mapping generator ----
\* C27: the mapping the generator keeps for a field name does not depend on
\* the order in which the operations are processed: every other order of the
\* same operations gives the same generated_map, and a field that
\* PATCH /repos/{owner}/{repo} exposes is mapped to it.
C27_GeneratedMappingIgnoresOrder ==
    (pc = "done" /\ IsSome(generated)) =>
        LET ops == Unwrap(generated).operations
            map == Unwrap(generated).map
        IN  /\ \A p \in Perms(DOMAIN ops) :
                  Grouped([i \in DOMAIN ops |-> ops[p[i]]]) =>
                      GenerateFrom(EmptyMap, [i \in DOMAIN ops |-> ops[p[i]]]) = map
            /\ \A i \in DOMAIN ops :
                  (ops[i].endpoint = preferred_repo_update_path_start
                        /\ ops[i].method = "patch") =>
                      \A f \in ops[i].fields :
                          /\ map[f].endpoint = preferred_repo_update_path_start
                          /\ map[f].method = "PATCH"

\* ---- convergence of the repo reconciliation ----
\* C28: in apply mode and with no call failing, a second run on the same
\* config right after the first one sends no repo-settings write and creates
\* or updates no webhook.
C28_SecondRunWritesNothing ==
    (pc = "again" /\ ~dry_run /\ \A i \in DOMAIN requests : requests[i].ok) =>
        \A i \in idx..Len(requests) :
            ~IsSettingsWrite(requests[i]) /\ ~IsHookWrite(requests[i])

\* ---- assignments of the filtered snapshot ----
\* C29: the filtered snapshot holds an assignment for every local assignment
\* (team, repo) on which GitHub reports a permission other than none for the
\* team, also when the team is not listed under the local teams (stated for
\* the runs in which every request succeeded).
C29_FilteredAssignmentsComplete ==
    (pc = "done" /\ result = "ok" /\ IsSome(snapshot)
        /\ \A j \in DOMAIN requests : requests[j].ok) =>
        \A i \in DOMAIN config.assignments :
            LET a == config.assignments[i]
            IN  (/\ <<a.team, a.repo>> \in DOMAIN remote.perms
                 /\ PermissionName(PermissionFlags(remote.perms[<<a.team, a.repo>>])) # "none") =>
                    \E k \in DOMAIN Unwrap(snapshot).assignments :
                        /\ Unwrap(snapshot).assignments[k].team = a.team
                        /\ Unwrap(snapshot).assignments[k].repo = a.repo

\* ---- deploy keys ----
\* C30: starting from a key and a secret that, when both present, come from
\* one pair, after any apply-mode run the deploy key and the secret of the
\* repo come from the same key pair, and a dry run generates and creates
\* nothing.
C30_DeployKeyAndSecretPaired ==
    IsSome(deploy) =>
        LET d == Unwrap(deploy)
        IN  /\ (~dry_run /\ IsSome(config.repos[1].deploy_key)
                    /\ IsSome(d.key) /\ IsSome(d.secret)) => d.key = d.secret
            /\ dry_run => d.pairs = 0 /\ d.calls = <<>>

====
